---- MODULE Spec2Model ----
(***************************************************************************)
(* A model of the hedgi risk-signal pipeline: the hedge quote calculator   *)
(* (src/src/lib/hedgeCalculator.ts) and the ranking pipeline               *)
(* (src/unnamed/part_005, the pipeline with the LLM ranking).              *)
(***************************************************************************)
EXTENDS Integers, Sequences, FiniteSets, TLC

(***************************************************************************)
(* NUMBERS OF THE CALCULATOR.  A JavaScript number is a binary floating    *)
(* point value.  The calculator's numbers are modelled as binary floating  *)
(* point values with a significand of MantBits bits (IEEE double: 53) and  *)
(* GridBits fractional bits at the smallest exponent, rounded to nearest,  *)
(* ties to even, as IEEE 754 does.  A finite value is the integer number   *)
(* of grid units (1 unit = 2^-GridBits) it holds.                          *)
(***************************************************************************)
MantBits == 5

GridBits == 5

RECURSIVE Pow2(_)
Pow2(n) == IF n = 0 THEN 1 ELSE 2 * Pow2(n - 1)

\* grid units in 1.0
G == Pow2(GridBits)

\* the integer nearest to n/d (n >= 0, d > 0), a tie going to the even one
NearestEven(n, d) ==
  LET q == n \div d
      r == n % d
  IN  IF 2 * r < d THEN q
      ELSE IF 2 * r > d THEN q + 1
      ELSE IF q % 2 = 0 THEN q ELSE q + 1

\* n/d (n >= 0, d > 0) rounded to a value of MantBits significant bits
RECURSIVE RoundPos(_, _)
RoundPos(n, d) ==
  IF n < d * Pow2(MantBits) THEN NearestEven(n, d) ELSE 2 * RoundPos(n, 2 * d)

RoundQ(n, d) == IF n >= 0 THEN RoundPos(n, d) ELSE 0 - RoundPos(0 - n, d)

Representable(n) == RoundQ(n, 1) = n

\* A value: k is "fin" (v grid units), "nan", "inf", "ninf", "huge" / "nhuge" (a
\* finite double above 1e12 / below -1e12, which the grid does not reach),
\* "undef" (undefined, the field is absent) or "null".
Fin(n) == [k |-> "fin", v |-> n]
Special(kind) == [k |-> kind, v |-> 0]
NaN == Special("nan")
PosInf == Special("inf")
NegInf == Special("ninf")
Huge == Special("huge")
NegHuge == Special("nhuge")
Undefined == Special("undef")
Null == Special("null")
Zero == Fin(0)
One == Fin(G)
Hundred == Fin(100 * G)

\* typeof x === "number"
IsNumber(x) == x.k \in {"fin", "nan", "inf", "ninf", "huge", "nhuge"}

\* Number.isFinite(x)
IsFinite(x) == x.k \in {"fin", "huge", "nhuge"}

\* the place of a value in the order of the reals extended by the infinities
Magnitude(x) ==
  CASE x.k = "ninf" -> -2
    [] x.k = "nhuge" -> -1
    [] x.k = "fin" -> 0
    [] x.k = "huge" -> 1
    [] x.k = "inf" -> 2

\* x < y and x <= y of JavaScript: false when either side is NaN or undefined
\* (undefined converts to NaN; null is never compared by the code modelled)
Ordered(x) == x.k \in {"fin", "inf", "ninf", "huge", "nhuge"}
Lt(x, y) ==
  /\ Ordered(x) /\ Ordered(y)
  /\ \/ Magnitude(x) < Magnitude(y)
     \/ x.k = "fin" /\ y.k = "fin" /\ x.v < y.v
Le(x, y) ==
  /\ Ordered(x) /\ Ordered(y)
  /\ \/ Magnitude(x) < Magnitude(y)
     \/ x.k = y.k /\ x.v <= y.v

Sign(x) == IF Lt(x, Zero) THEN -1 ELSE IF Lt(Zero, x) THEN 1 ELSE 0
Signed(s) == IF s > 0 THEN PosInf ELSE IF s < 0 THEN NegInf ELSE NaN

\* x * y
fMul(x, y) ==
  IF ~(Ordered(x) /\ Ordered(y)) THEN NaN
  ELSE IF x.k = "fin" /\ y.k = "fin" THEN Fin(RoundQ(x.v * y.v, G))
  ELSE Signed(Sign(x) * Sign(y))

\* x / y
fDiv(x, y) ==
  IF ~(Ordered(x) /\ Ordered(y)) THEN NaN
  ELSE IF x.k = "fin" /\ y.k = "fin"
    THEN IF y.v = 0 THEN Signed(Sign(x))
         ELSE IF y.v > 0 THEN Fin(RoundQ(x.v * G, y.v))
         ELSE Fin(RoundQ(0 - x.v * G, 0 - y.v))
  ELSE IF x.k = "fin" THEN Zero
  ELSE IF y.k = "fin" THEN Signed(Sign(x) * (IF y.v < 0 THEN -1 ELSE 1))
  ELSE NaN

\* x + y and x - y
fAdd(x, y) ==
  IF ~(Ordered(x) /\ Ordered(y)) THEN NaN
  ELSE IF x.k = "fin" /\ y.k = "fin" THEN Fin(RoundQ(x.v + y.v, 1))
  ELSE IF x.k = "fin" THEN y
  ELSE IF y.k = "fin" \/ Sign(x) = Sign(y) THEN x
  ELSE NaN

Neg(x) ==
  CASE x.k = "fin" -> Fin(0 - x.v)
    [] x.k = "inf" -> NegInf
    [] x.k = "ninf" -> PosInf
    [] x.k = "huge" -> NegHuge
    [] x.k = "nhuge" -> Huge
    [] OTHER -> NaN

fSub(x, y) == fAdd(x, Neg(y))

\* Math.min, Math.max: NaN when either argument is NaN
MathMin(x, y) == IF ~(Ordered(x) /\ Ordered(y)) THEN NaN ELSE IF Le(x, y) THEN x ELSE y
MathMax(x, y) == IF ~(Ordered(x) /\ Ordered(y)) THEN NaN ELSE IF Le(x, y) THEN y ELSE x

\* Math.floor, Math.ceil
MathFloor(x) == IF x.k = "fin" THEN Fin((x.v \div G) * G) ELSE IF Ordered(x) THEN x ELSE NaN
MathCeil(x) ==
  IF x.k = "fin" THEN Fin(0 - (((0 - x.v) \div G) * G)) ELSE IF Ordered(x) THEN x ELSE NaN

(***************************************************************************)
(* src/src/lib/hedgeCalculator.ts                                          *)
(***************************************************************************)
clamp(value, min, max) == MathMin(max, MathMax(min, value))

Thrown(code) == [status |-> "error", error |-> code]

validationMutOrder(input) ==
  IF ~IsFinite(input.loss_if_event) \/ Le(input.loss_if_event, Zero)
    THEN "invalid_loss_if_event"
  ELSE IF ~IsFinite(input.expected_profit)
          \/ input.expected_profit.k = "nhuge" \/ input.expected_profit.k = "huge"
    THEN "invalid_expected_profit"
  ELSE IF ~(Lt(Zero, input.price_yes) /\ Lt(input.price_yes, One))
    THEN "invalid_price_yes"
  ELSE "none"

\* the validation of computeHedgeQuote: the error thrown, or "none"
validation(input) ==
  IF ~(Lt(Zero, input.price_yes) /\ Lt(input.price_yes, One))
    THEN "invalid_price_yes"
  ELSE IF ~IsFinite(input.expected_profit)
          \/ input.expected_profit.k = "nhuge" \/ input.expected_profit.k = "huge"
    THEN "invalid_expected_profit"
  ELSE IF ~IsFinite(input.loss_if_event) \/ Le(input.loss_if_event, Zero)
    THEN "invalid_loss_if_event"
  ELSE "none"

hedgeCoverage(input) ==
  clamp(IF IsNumber(input.hedge_coverage) THEN input.hedge_coverage ELSE One, Zero, One)

maxCost(input) ==
  IF IsNumber(input.max_hedge_cost) THEN MathMax(Zero, input.max_hedge_cost) ELSE Null

targetPayout(input) == fMul(input.loss_if_event, hedgeCoverage(input))

contractsNeededMutFloor(input) == MathFloor(targetPayout(input))

contractsNeeded(input) == MathCeil(targetPayout(input))

contractsToBuyMutNoCap(input) == contractsNeeded(input)

contractsToBuy(input) ==
  IF maxCost(input) # Null
    THEN MathMin(contractsNeeded(input), MathFloor(fDiv(maxCost(input), input.price_yes)))
    ELSE contractsNeeded(input)

totalCost(input) == fMul(contractsToBuy(input), input.price_yes)

profitIfEventMutNoCost(input) ==
  fAdd(fSub(input.expected_profit, input.loss_if_event), contractsToBuy(input))

profitIfEvent(input) ==
  fSub(fAdd(fSub(input.expected_profit, input.loss_if_event), contractsToBuy(input)),
       totalCost(input))

profitIfNoEvent(input) == fSub(input.expected_profit, totalCost(input))

coverageAchieved(input) ==
  IF Lt(Zero, input.loss_if_event)
    THEN fDiv(contractsToBuy(input), input.loss_if_event)
    ELSE Zero

expectedValue(input) ==
  LET pEvent == clamp(input.price_yes, Zero, One)
  IN  fAdd(fMul(pEvent, profitIfEvent(input)),
           fMul(fSub(One, pEvent), profitIfNoEvent(input)))

computeHedgeQuote(input) ==
  IF validation(input) # "none" THEN Thrown(validation(input))
  ELSE [status |-> "ok",
        market_id |-> input.market_id,
        contracts_needed |-> contractsNeeded(input),
        contracts_to_buy |-> contractsToBuy(input),
        price_yes |-> input.price_yes,
        target_payout |-> targetPayout(input),
        actual_payout |-> contractsToBuy(input),
        total_cost |-> totalCost(input),
        profit_if_event |-> profitIfEvent(input),
        profit_if_no_event |-> profitIfNoEvent(input),
        coverage_achieved |-> coverageAchieved(input),
        expected_value |-> expectedValue(input)]

baselineLoss(input) ==
  IF IsNumber(input.baseline_loss) /\ Lt(Zero, input.baseline_loss)
    THEN input.baseline_loss
    ELSE Hundred

normalizedPercentMutNoClamp(rawPercent) ==
  IF Lt(One, rawPercent) THEN fDiv(rawPercent, Hundred) ELSE rawPercent

\* normalizedPercent as line 105 uses it, clamped to [0, 1]
normalizedPercent(rawPercent) ==
  clamp(IF Lt(One, rawPercent) THEN fDiv(rawPercent, Hundred) ELSE rawPercent, Zero, One)

computeHedgeQuotePercent(input) ==
  IF ~IsFinite(input.loss_if_event_percent) \/ Le(input.loss_if_event_percent, Zero)
    THEN Thrown("invalid_loss_if_event_percent")
    ELSE computeHedgeQuote(
           [market_id |-> input.market_id,
            price_yes |-> input.price_yes,
            expected_profit |-> Zero,
            loss_if_event |-> fMul(baselineLoss(input),
                                   normalizedPercent(input.loss_if_event_percent)),
            hedge_coverage |-> input.hedge_coverage,
            max_hedge_cost |-> input.max_hedge_cost])

(***************************************************************************)
(* STRINGS.  A string is a sequence of characters; a character is a string *)
(* of length one.                                                          *)
(***************************************************************************)
UpperCaseLetters == "ABCDEFGHIJKLMNOPQRSTUVWXYZ"
LowerCaseLetters == "abcdefghijklmnopqrstuvwxyz"
DigitChars == "0123456789"

CharAt(s, i) == SubSeq(s, i, i)

\* the first place of character c in s, 0 when it has none
IndexIn(c, s) ==
  IF \E i \in 1..Len(s) : CharAt(s, i) = c
    THEN CHOOSE i \in 1..Len(s) : CharAt(s, i) = c /\ \A j \in 1..(i - 1) : CharAt(s, j) # c
    ELSE 0

\* \s of a regular expression
IsSpace(c) == c \in {" ", "\t", "\n", "\r"}

\* the characters of a string
CharsOf(s) == {CharAt(s, i) : i \in 1..Len(s)}

\* [a-z0-9]
LowerAlnumChars == CharsOf(LowerCaseLetters) \cup CharsOf(DigitChars)
IsLowerAlnum(c) == c \in LowerAlnumChars

\* the lower case letter of each upper case letter
LowerCaseOf ==
  [c \in CharsOf(UpperCaseLetters) |-> CharAt(LowerCaseLetters, IndexIn(c, UpperCaseLetters))]

toLowerCaseChar(c) == IF c \in DOMAIN LowerCaseOf THEN LowerCaseOf[c] ELSE c

\* the value of each decimal digit
DigitOf == [c \in CharsOf(DigitChars) |-> IndexIn(c, DigitChars) - 1]

\* String.prototype.toLowerCase
RECURSIVE toLowerCase(_)
toLowerCase(s) ==
  IF Len(s) <= 1 THEN toLowerCaseChar(s)
  ELSE toLowerCase(SubSeq(s, 1, Len(s) \div 2))
         \o toLowerCase(SubSeq(s, Len(s) \div 2 + 1, Len(s)))

\* String.prototype.trim
RECURSIVE trimStart(_)
trimStart(s) ==
  IF s # "" /\ IsSpace(CharAt(s, 1)) THEN trimStart(SubSeq(s, 2, Len(s))) ELSE s
RECURSIVE trimEnd(_)
trimEnd(s) ==
  IF s # "" /\ IsSpace(CharAt(s, Len(s))) THEN trimEnd(SubSeq(s, 1, Len(s) - 1)) ELSE s
trim(s) == trimEnd(trimStart(s))

\* String.prototype.split(/\s+/): the fields between the runs of white space, an
\* empty field before a run that starts the string and after one that ends it.
\* fieldEnd is the last place of the field that starts at i, spaceRunEnd the
\* last place of the run of white space that starts at i.
RECURSIVE fieldEnd(_, _)
fieldEnd(s, i) ==
  IF i > Len(s) \/ IsSpace(CharAt(s, i)) THEN i - 1 ELSE fieldEnd(s, i + 1)

RECURSIVE spaceRunEnd(_, _)
spaceRunEnd(s, i) ==
  IF i < Len(s) /\ IsSpace(CharAt(s, i + 1)) THEN spaceRunEnd(s, i + 1) ELSE i

RECURSIVE splitFrom(_, _)
splitFrom(s, i) ==
  LET end == fieldEnd(s, i)
  IN  IF end >= Len(s) THEN <<SubSeq(s, i, end)>>
      ELSE <<SubSeq(s, i, end)>> \o splitFrom(s, spaceRunEnd(s, end + 1) + 1)

splitOnSpaces(s) == splitFrom(s, 1)

\* String.prototype.includes
includes(haystack, needle) ==
  \E i \in 0..(Len(haystack) - Len(needle)) :
    SubSeq(haystack, i + 1, i + Len(needle)) = needle

\* the elements of a sequence, each once, in the order of their first occurrence:
\* Array.from(new Set(seq))
RECURSIVE distinctInOrder(_)
distinctInOrder(seq) ==
  IF seq = <<>> THEN <<>>
  ELSE LET init == distinctInOrder(SubSeq(seq, 1, Len(seq) - 1))
           last == seq[Len(seq)]
       IN  IF \E i \in 1..Len(init) : init[i] = last THEN init ELSE Append(init, last)

Range(seq) == {seq[i] : i \in 1..Len(seq)}

(***************************************************************************)
(* src/unnamed/part_005: the ranking pipeline                              *)
(***************************************************************************)
STOPWORDS ==
  {"the", "and", "for", "with", "that", "this", "from", "your", "into", "over", "under",
   "above", "below", "about", "have", "has", "had", "our", "are", "was", "were", "will",
   "can", "could", "should", "would", "a", "an", "of", "to", "in", "on", "by", "as",
   "is", "it"}

\* .replace(/[^a-z0-9\s-]/g, " ")
RECURSIVE blankNonTokenChars(_)
blankNonTokenChars(s) ==
  IF s = "" THEN ""
  ELSE IF Len(s) = 1
    THEN IF IsLowerAlnum(s) \/ IsSpace(s) \/ s = "-" THEN s ELSE " "
  ELSE blankNonTokenChars(SubSeq(s, 1, Len(s) \div 2))
         \o blankNonTokenChars(SubSeq(s, Len(s) \div 2 + 1, Len(s)))

\* tokenize with the filter of the stop-words left out
tokenizeMutKeepsStopwords(input) ==
  LET tokens == splitOnSpaces(blankNonTokenChars(toLowerCase(input)))
      trimmed == [i \in 1..Len(tokens) |-> trim(tokens[i])]
  IN  SelectSeq(trimmed, LAMBDA token : Len(token) > 2)

\* lines 62-69
tokenize(input) ==
  LET tokens == splitOnSpaces(blankNonTokenChars(toLowerCase(input)))
      trimmed == [i \in 1..Len(tokens) |-> trim(tokens[i])]
  IN  SelectSeq(trimmed, LAMBDA token : Len(token) > 2 /\ token \notin STOPWORDS)

\* .replace(/[^a-z0-9\s]/g, "")
RECURSIVE stripNonTitleChars(_)
stripNonTitleChars(s) ==
  IF s = "" THEN ""
  ELSE LET c == CharAt(s, 1)
       IN  (IF IsLowerAlnum(c) \/ IsSpace(c) THEN c ELSE "")
             \o stripNonTitleChars(SubSeq(s, 2, Len(s)))

\* .replace(/\s+/g, " ")
RECURSIVE collapseSpaces(_)
collapseSpaces(s) ==
  IF s = "" THEN ""
  ELSE IF IsSpace(CharAt(s, 1))
    THEN " " \o collapseSpaces(trimStart(s))
    ELSE CharAt(s, 1) \o collapseSpaces(SubSeq(s, 2, Len(s)))

normalizeTitle(value) == trim(collapseSpaces(stripNonTitleChars(toLowerCase(value))))

(***************************************************************************)
(* SCORES.  Confidence, relevance, liquidity, time and signal scores are   *)
(* numbers of [0, 1]; they are carried in millionths, each division        *)
(* rounded to the nearest millionth.                                       *)
(***************************************************************************)
Micro == 1000 * 1000

\* n / d to the nearest integer (n >= 0, d > 0), half up
DivRound(n, d) == (2 * n + d) \div (2 * d)

Min(a, b) == IF a <= b THEN a ELSE b
Max(a, b) == IF a <= b THEN b ELSE a

\* x.toFixed(3) read back as a number: x to the nearest thousandth
toFixed3(x) == DivRound(x, 1000) * 1000

\* x.toFixed(2), in hundredths
toFixed2(x) == DivRound(x, 10000)

(***************************************************************************)
(* src/src/lib/categories.ts                                               *)
(***************************************************************************)
CATEGORY_DEFINITIONS ==
  <<
    [id |-> "agriculture", label |-> "Agriculture & Crops",
     keywords |-> <<"farm", "crop", "harvest", "citrus", "orchard", "livestock", "grain", "corn", "soy", "dairy">>,
     defaultRegionBehavior |-> "regional-seasonal"],
    [id |-> "weather", label |-> "Weather & Climate",
     keywords |-> <<"hurricane", "drought", "flood", "rain", "rainfall", "snow", "temperature", "storm", "heat", "frost">>,
     defaultRegionBehavior |-> "coastal-sensitive"],
    [id |-> "energy", label |-> "Energy & Fuel",
     keywords |-> <<"oil", "gas", "fuel", "diesel", "electricity", "power", "solar", "wind", "utility">>,
     defaultRegionBehavior |-> "national"],
    [id |-> "logistics", label |-> "Logistics & Supply Chain",
     keywords |-> <<"shipping", "freight", "trucking", "port", "supply", "warehouse", "inventory", "delivery">>,
     defaultRegionBehavior |-> "hub-sensitive"],
    [id |-> "tourism", label |-> "Tourism & Leisure",
     keywords |-> <<"hotel", "resort", "travel", "vacation", "tourism", "airline", "cruise", "rental", "visitor">>,
     defaultRegionBehavior |-> "seasonal"],
    [id |-> "sports", label |-> "Sports & Events",
     keywords |-> <<"stadium", "tickets", "league", "season", "playoffs", "team", "event", "attendance">>,
     defaultRegionBehavior |-> "seasonal"],
    [id |-> "finance", label |-> "Rates & Macro",
     keywords |-> <<"interest", "inflation", "cpi", "rates", "recession", "credit", "fed", "yield">>,
     defaultRegionBehavior |-> "national"],
    [id |-> "health", label |-> "Health & Insurance",
     keywords |-> <<"hospital", "clinic", "insurance", "flu", "outbreak", "pharma", "healthcare">>,
     defaultRegionBehavior |-> "regional"],
    [id |-> "technology", label |-> "Technology & SaaS",
     keywords |-> <<"software", "saas", "cloud", "semiconductor", "ai", "data", "hardware">>,
     defaultRegionBehavior |-> "national"],
    [id |-> "real-estate", label |-> "Real Estate & Construction",
     keywords |-> <<"mortgage", "housing", "rent", "commercial", "construction", "property", "development">>,
     defaultRegionBehavior |-> "regional"]
  >>

\* normalize of categories.ts: trim and lower case
normalize(value) == toLowerCase(trim(value))

containsKeyword(haystack, keyword) == includes(haystack, keyword) \/ includes(keyword, haystack)

\* null of a string field
NullString == "<null>"

\* a string that is neither null nor empty: if (value)
Truthy(value) == value \notin {NullString, ""}

\* a number, NaN, undefined and null
NotANumber == [k |-> "nan", v |-> 0]
Num(n) == [k |-> "num", v |-> n]
Absent == [k |-> "undef", v |-> 0]
NullValue == [k |-> "null", v |-> 0]

\* typeof value === "number"
TypeofNumber(value) == value.k = "num"

\* the candidate keywords of a profile, lines 90-94
baseKeywords(profile) ==
  (IF Truthy(profile.industry) THEN {normalize(profile.industry)} ELSE {})
    \cup (IF Truthy(profile.location) THEN {normalize(profile.location)} ELSE {})
    \cup {normalize(profile.keywords[i]) : i \in 1..Len(profile.keywords)}
    \cup {normalize(profile.exposures[i]) : i \in 1..Len(profile.exposures)}

\* the keywords of a category that some candidate keyword matches, lines 102-112
matchedKeywords(profile, category) ==
  SelectSeq(category.keywords,
            LAMBDA keyword :
              \E candidate \in baseKeywords(profile) :
                containsKeyword(candidate, keyword) \/ containsKeyword(keyword, candidate))

\* lines 106-108: the industry matches a matched keyword
industryMatch(profile, category) ==
  /\ Truthy(profile.industry)
  /\ \E i \in 1..Len(matchedKeywords(profile, category)) :
       containsKeyword(normalize(profile.industry), matchedKeywords(profile, category)[i])

hitCount(profile, category) ==
  Len(matchedKeywords(profile, category)) + (IF industryMatch(profile, category) THEN 1 ELSE 0)

\* lines 117-121 with the boost of the region left out
confidenceMutNoRegionBoost(profile, category) ==
  LET coverageDenominator == Max(4, Min(8, Len(category.keywords)))
      coverage == DivRound(hitCount(profile, category) * Micro, coverageDenominator)
  IN  Min(Micro, 150000 + DivRound(coverage * 75, 100))

\* lines 117-121
confidence(profile, category) ==
  LET coverageDenominator == Max(4, Min(8, Len(category.keywords)))
      coverage == DivRound(hitCount(profile, category) * Micro, coverageDenominator)
      regionBoost ==
        IF Truthy(profile.region) /\ category.defaultRegionBehavior # "national"
          THEN 50000 ELSE 0
  IN  Min(Micro, 150000 + DivRound(coverage * 75, 100) + regionBoost)

\* Array.prototype.sort with the comparator (a, b) => key(b) - key(a): a stable
\* sort into descending order of key.  keys[i] is the key of the i-th element;
\* the result lists the places 1..Len(keys) in their sorted order.
RECURSIVE insertDescending(_, _, _)
insertDescending(sorted, i, keys) ==
  IF sorted = <<>> THEN <<i>>
  ELSE IF keys[Head(sorted)] >= keys[i]
    THEN <<Head(sorted)>> \o insertDescending(Tail(sorted), i, keys)
    ELSE <<i>> \o sorted

RECURSIVE sortedPlaces(_, _)
sortedPlaces(n, keys) ==
  IF n = 0 THEN <<>> ELSE insertDescending(sortedPlaces(n - 1, keys), n, keys)

sortDescending(seq, keys) ==
  LET places == sortedPlaces(Len(seq), keys)
  IN  [i \in 1..Len(seq) |-> seq[places[i]]]

inferCategoriesFromProfile(profile) ==
  LET hit == SelectSeq(CATEGORY_DEFINITIONS,
                       LAMBDA category : hitCount(profile, category) # 0)
      matches == [i \in 1..Len(hit) |->
                    [id |-> hit[i].id, confidence |-> confidence(profile, hit[i])]]
  IN  sortDescending(matches, [i \in 1..Len(matches) |-> matches[i].confidence])

(***************************************************************************)
(* src/unnamed/part_005: profile extraction                                *)
(***************************************************************************)
STATE_REGION_MAP ==
  << <<"florida", "US-SE">>, <<"texas", "US-South">>, <<"california", "US-West">>,
     <<"colorado", "US-Mountain">>, <<"iowa", "US-Midwest">>, <<"kansas", "US-Midwest">>,
     <<"new york", "US-Northeast">>, <<"georgia", "US-SE">>, <<"louisiana", "US-Gulf">>,
     <<"massachusetts", "US-Northeast">> >>

INDUSTRY_HINTS ==
  << <<"farm", "agriculture">>, <<"crop", "agriculture">>, <<"orchard", "agriculture">>,
     <<"resort", "tourism">>, <<"hotel", "tourism">>, <<"rental", "tourism">>,
     <<"logistics", "logistics">>, <<"warehouse", "logistics">>,
     <<"construction", "real estate">>, <<"software", "technology">> >>

exposureKeywords ==
  <<"hurricane", "drought", "flood", "rain", "storm", "heat", "snow", "interest rate",
    "inflation", "supply chain", "fuel", "energy", "pest", "disease">>

\* the second component of the first pair whose first component the text
\* includes, NullString when there is none
firstIncluded(lower, pairs) ==
  IF \E i \in 1..Len(pairs) : includes(lower, pairs[i][1])
    THEN pairs[CHOOSE i \in 1..Len(pairs) :
                 /\ includes(lower, pairs[i][1])
                 /\ \A j \in 1..(i - 1) : ~includes(lower, pairs[j][1])]
    ELSE <<NullString, NullString>>

detectLocation(input) ==
  LET hit == firstIncluded(toLowerCase(input), STATE_REGION_MAP)
  IN  [location |-> hit[1], region |-> hit[2]]

detectExposures(input) ==
  SelectSeq(exposureKeywords, LAMBDA keyword : includes(toLowerCase(input), keyword))

detectIndustry(input) == firstIncluded(toLowerCase(input), INDUSTRY_HINTS)[2]

\* Array.prototype.slice(0, n)
sliceTo(seq, n) == SubSeq(seq, 1, Min(n, Len(seq)))

\* lines 21-34, in the order of the keys
MONTH_MAP ==
  << <<"jan", 1>>, <<"january", 1>>, <<"feb", 2>>, <<"february", 2>>, <<"mar", 3>>,
     <<"march", 3>>, <<"apr", 4>>, <<"april", 4>>, <<"may", 5>>, <<"jun", 6>>, <<"june", 6>>,
     <<"jul", 7>>, <<"july", 7>>, <<"aug", 8>>, <<"august", 8>>, <<"sep", 9>>, <<"sept", 9>>,
     <<"september", 9>>, <<"oct", 10>>, <<"october", 10>>, <<"nov", 11>>, <<"november", 11>>,
     <<"dec", 12>>, <<"december", 12>> >>

\* MONTH_MAP[key]
monthNumber(key) == MONTH_MAP[CHOOSE i \in 1..Len(MONTH_MAP) : MONTH_MAP[i][1] = key][2]

\* the alternatives of (jan|feb|...|dec), line 74.  "sept" is never the text of a
\* group: "sep" stands before it and [a-z]* takes the "t".
monthAlternatives ==
  <<"jan", "feb", "mar", "apr", "may", "jun", "jul", "aug", "sep", "oct", "nov", "dec">>

startsWithAt(s, i, word) ==
  /\ i + Len(word) - 1 <= Len(s)
  /\ SubSeq(s, i, i + Len(word) - 1) = word

monthAt(s, i) == \E k \in 1..Len(monthAlternatives) : startsWithAt(s, i, monthAlternatives[k])

LowerLetterChars == CharsOf(LowerCaseLetters)

\* the place after the longest run of [a-z] that starts at i
RECURSIVE lettersEnd(_, _)
lettersEnd(s, i) ==
  IF i <= Len(s) /\ CharAt(s, i) \in LowerLetterChars THEN lettersEnd(s, i + 1) ELSE i

\* the place after the longest run of \s that starts at i
RECURSIVE spacesEnd(_, _)
spacesEnd(s, i) ==
  IF i <= Len(s) /\ IsSpace(CharAt(s, i)) THEN spacesEnd(s, i + 1) ELSE i

\* the place after (?:-|to|through) at i, 0 when none of them stands there
connectorEnd(s, i) ==
  IF startsWithAt(s, i, "-") THEN i + 1
  ELSE IF startsWithAt(s, i, "to") THEN i + 2
  ELSE IF startsWithAt(s, i, "through") THEN i + 7
  ELSE 0

\* the place of the second month when \s*(?:-|to|through)\s*(month) matches at p,
\* 0 otherwise
secondMonthAt(s, p) ==
  LET q == connectorEnd(s, spacesEnd(s, p))
  IN  IF q = 0 THEN 0
      ELSE IF monthAt(s, spacesEnd(s, q)) THEN spacesEnd(s, q) ELSE 0

\* the regular expression of line 74 matches with its first month at i
rangeMatchesAt(s, i) ==
  /\ monthAt(s, i)
  /\ \E p \in (i + 3)..lettersEnd(s, i + 3) : secondMonthAt(s, p) # 0

NoSeason == [startMonth |-> 0, endMonth |-> 0, notes |-> NullString]

\* lines 71-94; NoSeason stands for null
detectRevenueSeason(input) ==
  LET lower == toLowerCase(input)
      months == SelectSeq(MONTH_MAP, LAMBDA entry : includes(lower, entry[1]))
      joined[k \in 0..Len(months)] ==
        IF k = 0 THEN ""
        ELSE IF k = 1 THEN months[1][1]
        ELSE joined[k - 1] \o ", " \o months[k][1]
  IN  IF \E i \in 1..Len(lower) : rangeMatchesAt(lower, i)
        THEN LET i == CHOOSE i \in 1..Len(lower) :
                        /\ rangeMatchesAt(lower, i)
                        /\ \A j \in 1..(i - 1) : ~rangeMatchesAt(lower, j)
                 \* [a-z]* is greedy: the longest run that lets the rest match
                 p == CHOOSE p \in (i + 3)..lettersEnd(lower, i + 3) :
                        /\ secondMonthAt(lower, p) # 0
                        /\ \A r \in (p + 1)..lettersEnd(lower, i + 3) :
                             secondMonthAt(lower, r) = 0
                 second == secondMonthAt(lower, p)
             IN  [startMonth |-> monthNumber(SubSeq(lower, i, i + 2)),
                  endMonth |-> monthNumber(SubSeq(lower, second, second + 2)),
                  notes |-> SubSeq(lower, i, lettersEnd(lower, second + 3) - 1)]
      ELSE IF Len(months) >= 2
        THEN [startMonth |-> months[1][2], endMonth |-> months[Len(months)][2],
              notes |-> joined[Len(months)]]
      ELSE NoSeason

\* The profile of the rule-based extractor, lines 138-159.
mockExtractBusinessProfile(input) ==
  [rawInput |-> input,
   industry |-> detectIndustry(input),
   location |-> detectLocation(input).location,
   region |-> detectLocation(input).region,
   seasonality |-> detectRevenueSeason(input).notes,
   revenueDrivers |-> <<>>,
   keyCosts |-> <<>>,
   assumptions |-> <<>>,
   revenueSeason |-> detectRevenueSeason(input),
   exposures |-> detectExposures(input),
   keywords |-> sliceTo(distinctInOrder(tokenize(input)), 20)]

\* payload.field ?? base.field
Coalesce(value, fallback) == IF value = NullString THEN fallback ELSE value

\* A JSON array is [isArray |-> TRUE, items |-> ...]; any other value that stands
\* where an array is expected is NotAnArray.  An item that is no string is
\* NullString.
NotAnArray == [isArray |-> FALSE, items |-> <<>>]
ArrayOf(items) == [isArray |-> TRUE, items |-> items]

\* lines 189-195, and part_008 lines 512-518
sanitizeStringArray(value) ==
  IF value.isArray
    THEN LET strings == SelectSeq(value.items, LAMBDA item : item # NullString)
             trimmed == [i \in 1..Len(strings) |-> trim(strings[i])]
         IN  SelectSeq(trimmed, LAMBDA item : item # "")
    ELSE <<>>

\* typeof value === "string" ? value : ""
stringOrEmpty(value) == IF value = NullString THEN "" ELSE value

\* lines 208-218, and part_008 lines 523-533.  An item is
\* [isObject, field, value, confidence, basis]; the confidence is in hundredths.
sanitizeAssumptions(value) ==
  IF value.isArray
    THEN LET objects == SelectSeq(value.items, LAMBDA item : item.isObject)
             mapped == [i \in 1..Len(objects) |->
                          [isObject |-> TRUE,
                           field |-> stringOrEmpty(objects[i].field),
                           value |-> stringOrEmpty(objects[i].value),
                           confidence |-> IF TypeofNumber(objects[i].confidence)
                                            THEN objects[i].confidence ELSE Num(50),
                           basis |-> stringOrEmpty(objects[i].basis)]]
         IN  SelectSeq(mapped, LAMBDA item : item.field # "" \/ item.value # "" \/ item.basis # "")
    ELSE <<>>

\* extractBusinessProfileWithGemini once /api/profile has answered with payload,
\* lines 199-219
extractBusinessProfileWithGemini(input, payload) ==
  [mockExtractBusinessProfile(input) EXCEPT
     !.industry = Coalesce(payload.industry, @),
     !.location = Coalesce(payload.location, @),
     !.seasonality = Coalesce(payload.seasonality, @),
     !.revenueDrivers = sanitizeStringArray(payload.revenueDrivers),
     !.keyCosts = sanitizeStringArray(payload.keyCosts),
     !.assumptions = sanitizeAssumptions(payload.assumptions)]

(***************************************************************************)
(* TIME.  The clock counts ticks since 2026-01-01T00:00:00Z; a day has     *)
(* TicksPerDay ticks.                                                      *)
(***************************************************************************)
TicksPerDay == 2

\* the number a string of decimal digits writes, -1 when it is no such string
RECURSIVE digitsValue(_)
digitsValue(s) ==
  IF s = "" THEN 0
  ELSE LET init == digitsValue(SubSeq(s, 1, Len(s) - 1))
           c == CharAt(s, Len(s))
       IN  IF init < 0 \/ c \notin DOMAIN DigitOf THEN -1 ELSE 10 * init + DigitOf[c]

IsLeapYear(y) == (y % 4 = 0 /\ y % 100 # 0) \/ y % 400 = 0

DaysInMonth(y, m) ==
  IF m = 2 THEN (IF IsLeapYear(y) THEN 29 ELSE 28)
  ELSE IF m \in {4, 6, 9, 11} THEN 30 ELSE 31

LeapYearsBefore(y) == ((y - 1) \div 4) - ((y - 1) \div 100) + ((y - 1) \div 400)

RECURSIVE DaysBeforeMonth(_, _)
DaysBeforeMonth(y, m) ==
  IF m = 1 THEN 0 ELSE DaysBeforeMonth(y, m - 1) + DaysInMonth(y, m - 1)

\* days from 2026-01-01 to the given date
DaysSinceEpoch(y, m, d) ==
  365 * (y - 2026) + (LeapYearsBefore(y) - LeapYearsBefore(2026)) + DaysBeforeMonth(y, m) + (d - 1)

\* Date.parse and new Date(iso).getTime() on the form YYYY-MM-DDTHH:MM:SSZ, in
\* ticks; NaN for every other string
DateParse(iso) ==
  LET year == digitsValue(SubSeq(iso, 1, 4))
      month == digitsValue(SubSeq(iso, 6, 7))
      day == digitsValue(SubSeq(iso, 9, 10))
      hour == digitsValue(SubSeq(iso, 12, 13))
      minute == digitsValue(SubSeq(iso, 15, 16))
      second == digitsValue(SubSeq(iso, 18, 19))
      wellFormed ==
        /\ Len(iso) = 20
        /\ CharAt(iso, 5) = "-" /\ CharAt(iso, 8) = "-" /\ CharAt(iso, 11) = "T"
        /\ CharAt(iso, 14) = ":" /\ CharAt(iso, 17) = ":" /\ CharAt(iso, 20) = "Z"
        /\ year >= 0 /\ month \in 1..12 /\ day >= 1 /\ hour \in 0..23
        /\ minute \in 0..59 /\ second \in 0..59
        /\ day <= DaysInMonth(year, month)
  IN  IF wellFormed
        THEN Num(DaysSinceEpoch(year, month, day) * TicksPerDay
                   + ((hour * 3600 + minute * 60 + second) * TicksPerDay) \div 86400)
        ELSE NotANumber

\* 24 * 60 * 60 * 1000 milliseconds, in ticks
dayMs == TicksPerDay

\* Math.ceil(n / d) for d > 0
CeilDiv(n, d) == -((-n) \div d)

\* daysUntil with the days rounded down
daysUntilMutFloor(iso, now) ==
  LET target == DateParse(iso)
  IN  IF target.k = "nan" THEN 0 ELSE (target.v - now) \div dayMs

daysUntil(iso, now) ==
  LET target == DateParse(iso)
  IN  IF target.k = "nan" THEN 0 ELSE CeilDiv(target.v - now, dayMs)

(***************************************************************************)
(* MARKETS.  A market carries the fields the pipeline reads; its liquidity *)
(* is a number, or is absent (undefined), or is null.                      *)
(***************************************************************************)
kalshiMockMarkets ==
  << [id |-> "kalshi-weather-atlantic-2026", source |-> "kalshi",
      title |-> "Will the 2026 Atlantic hurricane season be above average?",
      categoryId |-> "weather", closeTime |-> "2026-11-30T21:00:00Z", liquidity |-> Num(220000)],
     [id |-> "kalshi-agri-florida-citrus-2026", source |-> "kalshi",
      title |-> "Will Florida orange yield fall below 60M boxes in 2026?",
      categoryId |-> "agriculture", closeTime |-> "2027-01-15T18:00:00Z", liquidity |-> Num(85000)],
     [id |-> "kalshi-energy-wti-q3-2026", source |-> "kalshi",
      title |-> "Will WTI crude average above $85 in Q3 2026?",
      categoryId |-> "energy", closeTime |-> "2026-10-01T00:00:00Z", liquidity |-> Num(190000)],
     [id |-> "kalshi-finance-cpi-dec-2026", source |-> "kalshi",
      title |-> "Will US CPI YoY exceed 3.0% in Dec 2026?",
      categoryId |-> "finance", closeTime |-> "2027-01-20T13:30:00Z", liquidity |-> Num(130000)],
     [id |-> "kalshi-weather-co-snow-2026", source |-> "kalshi",
      title |-> "Will Colorado snowfall be above average for 2026-27?",
      categoryId |-> "weather", closeTime |-> "2027-04-15T19:00:00Z", liquidity |-> Num(64000)],
     [id |-> "kalshi-tourism-airline-2026", source |-> "kalshi",
      title |-> "Will US airline passenger volume exceed 2019 levels in 2026?",
      categoryId |-> "tourism", closeTime |-> "2027-02-15T20:00:00Z", liquidity |-> Num(52000)],
     [id |-> "kalshi-realestate-housing-2026", source |-> "kalshi",
      title |-> "Will US housing starts exceed 1.5M in 2026?",
      categoryId |-> "real-estate", closeTime |-> "2027-01-25T15:00:00Z", liquidity |-> Num(78000)],
     [id |-> "kalshi-agri-soy-2026", source |-> "kalshi",
      title |-> "Will soybean prices exceed $14/bushel by Sep 2026?",
      categoryId |-> "agriculture", closeTime |-> "2026-09-30T19:00:00Z", liquidity |-> Num(94000)] >>

polymarketMockMarkets ==
  << [id |-> "poly-weather-gulf-landfall-2026", source |-> "polymarket",
      title |-> "Will a major hurricane make Gulf Coast landfall in 2026?",
      categoryId |-> "weather", closeTime |-> "2026-11-15T21:00:00Z", liquidity |-> Num(180000)],
     [id |-> "poly-agri-corn-yield-2026", source |-> "polymarket",
      title |-> "Will US corn yield fall below 170 bu/acre in 2026?",
      categoryId |-> "agriculture", closeTime |-> "2027-01-12T18:00:00Z", liquidity |-> Num(72000)],
     [id |-> "poly-energy-henryhub-winter-2026", source |-> "polymarket",
      title |-> "Will Henry Hub gas average above $4.00 in winter 2026-27?",
      categoryId |-> "energy", closeTime |-> "2027-03-31T20:00:00Z", liquidity |-> Num(65000)],
     [id |-> "poly-logistics-bdi-2026", source |-> "polymarket",
      title |-> "Will the Baltic Dry Index exceed 2,000 in 2026?",
      categoryId |-> "logistics", closeTime |-> "2026-12-29T20:00:00Z", liquidity |-> Num(41000)],
     [id |-> "poly-tourism-hotel-occupancy-2026", source |-> "polymarket",
      title |-> "Will US hotel occupancy exceed 66% in summer 2026?",
      categoryId |-> "tourism", closeTime |-> "2026-09-10T20:00:00Z", liquidity |-> Num(36000)],
     [id |-> "poly-finance-unemployment-2026", source |-> "polymarket",
      title |-> "Will US unemployment exceed 5.0% by Dec 2026?",
      categoryId |-> "finance", closeTime |-> "2027-01-08T13:30:00Z", liquidity |-> Num(98000)],
     [id |-> "poly-health-flu-2026", source |-> "polymarket",
      title |-> "Will US flu hospitalizations exceed 2025 levels in 2026-27?",
      categoryId |-> "health", closeTime |-> "2027-05-01T18:00:00Z", liquidity |-> Num(28000)],
     [id |-> "poly-tech-semiconductor-2026", source |-> "polymarket",
      title |-> "Will global semiconductor sales grow over 10% in 2026?",
      categoryId |-> "technology", closeTime |-> "2027-02-01T18:00:00Z", liquidity |-> Num(53000)] >>

LOG10_TABLE ==
  << <<1, 0>>,
     <<5000, 3698970>>,
     <<20000, 4301030>>,
     <<28000, 4447158>>,
     <<36000, 4556303>>,
     <<41000, 4612784>>,
     <<50000, 4698970>>,
     <<52000, 4716003>>,
     <<53000, 4724276>>,
     <<64000, 4806180>>,
     <<65000, 4812913>>,
     <<72000, 4857332>>,
     <<78000, 4892095>>,
     <<85000, 4929419>>,
     <<94000, 4973128>>,
     <<98000, 4991226>>,
     <<130000, 5113943>>,
     <<180000, 5255273>>,
     <<190000, 5278754>>,
     <<220000, 5342423>>,
     <<1000000, 6000000>> >>

\* fetchActiveMarketsByCategories of kalshi.mock.ts and of polymarket.mock.ts
fetchActiveMarketsByCategories(markets, categories) ==
  IF Len(categories) = 0 THEN markets
  ELSE SelectSeq(markets, LAMBDA market : market.categoryId \in Range(categories))

liquidityThreshold == 20000

\* the test of hygieneFilter before the title is looked up, lines 289-291
passesCloseAndLiquidity(market, now) ==
  LET closeTime == DateParse(market.closeTime)
  IN  /\ ~(closeTime.k = "nan" \/ closeTime.v <= now)
      /\ ~(TypeofNumber(market.liquidity) /\ market.liquidity.v < liquidityThreshold)

\* hygieneFilterFrom with the title recorded before the close time and the
\* liquidity are looked at
RECURSIVE hygieneFilterFromMutSeenFirst(_, _, _, _)
hygieneFilterFromMutSeenFirst(markets, i, seen, now) ==
  IF i > Len(markets) THEN <<>>
  ELSE LET normalized == normalizeTitle(markets[i].title)
       IN  IF normalized \in seen \/ ~passesCloseAndLiquidity(markets[i], now)
             THEN hygieneFilterFromMutSeenFirst(markets, i + 1, seen \cup {normalized}, now)
             ELSE <<markets[i]>>
                    \o hygieneFilterFromMutSeenFirst(markets, i + 1,
                                                     seen \cup {normalized}, now)

\* hygieneFilterFrom keeping the repeated titles instead of the first ones
RECURSIVE hygieneFilterFromMutKeepRepeats(_, _, _, _)
hygieneFilterFromMutKeepRepeats(markets, i, seen, now) ==
  IF i > Len(markets) THEN <<>>
  ELSE IF ~passesCloseAndLiquidity(markets[i], now)
    THEN hygieneFilterFromMutKeepRepeats(markets, i + 1, seen, now)
  ELSE LET normalized == normalizeTitle(markets[i].title)
       IN  IF normalized \notin seen
             THEN hygieneFilterFromMutKeepRepeats(markets, i + 1, seen \cup {normalized}, now)
             ELSE <<markets[i]>> \o hygieneFilterFromMutKeepRepeats(markets, i + 1, seen, now)

\* markets.filter of hygieneFilter from place i on, seen the titles kept so far
RECURSIVE hygieneFilterFrom(_, _, _, _)
hygieneFilterFrom(markets, i, seen, now) ==
  IF i > Len(markets) THEN <<>>
  ELSE IF ~passesCloseAndLiquidity(markets[i], now)
    THEN hygieneFilterFrom(markets, i + 1, seen, now)
  ELSE LET normalized == normalizeTitle(markets[i].title)
       IN  IF normalized \in seen
             THEN hygieneFilterFrom(markets, i + 1, seen, now)
             ELSE <<markets[i]>>
                    \o hygieneFilterFrom(markets, i + 1, seen \cup {normalized}, now)

hygieneFilter(markets, now) == hygieneFilterFrom(markets, 1, {}, now)

\* normalizeTitle(market.title) throws a TypeError, line 293: a market that
\* passes the tests of lines 289-291 has no title (NullString)
hygieneFilterThrows(markets, now) ==
  \E i \in 1..Len(markets) :
    passesCloseAndLiquidity(markets[i], now) /\ markets[i].title = NullString

(***************************************************************************)
(* src/unnamed/part_005: scoring                                           *)
(***************************************************************************)
\* clamp of the pipeline, line 231, on scores
clampScore(value, min, max) == Min(max, Max(min, value))

relevanceScoreStub(profile, market, categories) ==
  LET matchedCategoryIds == {categories[i].id : i \in 1..Len(categories)}
      categoryKeywords ==
        UNION {Range(CATEGORY_DEFINITIONS[i].keywords) :
                 i \in {j \in 1..Len(CATEGORY_DEFINITIONS) :
                          CATEGORY_DEFINITIONS[j].id \in matchedCategoryIds}}
      matchedKeywordSet ==
        categoryKeywords \cup Range(profile.keywords) \cup Range(profile.exposures)
      titleTokens == Range(tokenize(market.title))
      overlap == Cardinality(titleTokens \cap matchedKeywordSet)
      base == DivRound(overlap * Micro, Max(4, Cardinality(titleTokens)))
      categoryBoost ==
        IF Len(categories) > 0 /\ Truthy(categories[1].id)
             /\ market.categoryId = categories[1].id
          THEN 150000 ELSE 0
  IN  Min(Micro, base + categoryBoost)

\* Math.log10 in millionths, on the liquidities of LOG10_TABLE
MathLog10(n) ==
  LOG10_TABLE[CHOOSE i \in 1..Len(LOG10_TABLE) : LOG10_TABLE[i][1] = n][2]

liquidityScore(market) ==
  IF ~TypeofNumber(market.liquidity) THEN 500000
  ELSE LET scaled == DivRound(MathLog10(Max(1, market.liquidity.v)), 6)
       IN  Min(Micro, Max(0, scaled))

timeAlignmentScore(market, now) ==
  LET remainingDays == daysUntil(market.closeTime, now)
  IN  IF remainingDays <= 0 THEN 0
      ELSE IF remainingDays <= 30 THEN Micro
      ELSE IF remainingDays <= 90 THEN 700000
      ELSE IF remainingDays <= 180 THEN 500000
      ELSE 300000

proxyStrengthFromRelevance(relevance) ==
  IF relevance >= 700000 THEN "strong"
  ELSE IF relevance >= 450000 THEN "partial"
  ELSE "weak"

mappedRiskFromProfile(profile, categoryId) ==
  IF Len(profile.exposures) > 0 THEN profile.exposures[1]
  ELSE IF \E i \in 1..Len(CATEGORY_DEFINITIONS) : CATEGORY_DEFINITIONS[i].id = categoryId
    THEN CATEGORY_DEFINITIONS[CHOOSE i \in 1..Len(CATEGORY_DEFINITIONS) :
                                CATEGORY_DEFINITIONS[i].id = categoryId].label
    ELSE "market risk"

(***************************************************************************)
(* src/unnamed/part_005: the ranking of the LLM.  An item of the response  *)
(* has the fields marketId, id, relevanceScore, proxyStrength, mappedRisk  *)
(* and rationale; a field that is missing is NullString, or Absent for the *)
(* score.  The score is in millionths of a point.                          *)
(***************************************************************************)
\* String.prototype.slice(0, n)
sliceString(s, n) == SubSeq(s, 1, Min(n, Len(s)))

\* the entry of byId an item of the response makes, lines 261-274
rankedSignalPartial(item) ==
  [marketId |-> Coalesce(item.marketId, Coalesce(item.id, "")),
   relevanceScore |->
     clampScore(IF TypeofNumber(item.relevanceScore) THEN item.relevanceScore.v ELSE 0,
                0, 100 * Micro),
   proxyStrength |-> Coalesce(item.proxyStrength, "weak"),
   mappedRisk |-> Coalesce(item.mappedRisk, "market risk"),
   rationale |-> sliceString(Coalesce(item.rationale, ""), 140)]

\* Map.prototype.set: the entry of a key already there is replaced in place
mapSet(entries, entry) ==
  IF \E i \in 1..Len(entries) : entries[i].marketId = entry.marketId
    THEN [i \in 1..Len(entries) |->
            IF entries[i].marketId = entry.marketId THEN entry ELSE entries[i]]
    ELSE Append(entries, entry)

\* rankMarketsWithGemini once /api/rank-markets has answered with response
RECURSIVE rankMarketsWithGemini(_)
rankMarketsWithGemini(response) ==
  IF response = <<>> THEN <<>>
  ELSE LET byId == rankMarketsWithGemini(SubSeq(response, 1, Len(response) - 1))
           entry == rankedSignalPartial(response[Len(response)])
       IN  IF entry.marketId = "" THEN byId ELSE mapSet(byId, entry)

\* geminiMap.has(id) and geminiMap.get(id), lines 379-382
geminiHas(geminiItems, id) == \E i \in 1..Len(geminiItems) : geminiItems[i].marketId = id
geminiGet(geminiItems, id) ==
  geminiItems[CHOOSE i \in 1..Len(geminiItems) :
                /\ geminiItems[i].marketId = id
                /\ \A j \in (i + 1)..Len(geminiItems) : geminiItems[j].marketId # id]

(***************************************************************************)
(* src/unnamed/part_005: the ranking step of buildRankedSignals            *)
(***************************************************************************)
\* a natural number in decimal digits
RECURSIVE naturalToString(_)
naturalToString(n) ==
  IF n < 10 THEN CharAt(DigitChars, n + 1)
  ELSE naturalToString(n \div 10) \o CharAt(DigitChars, (n % 10) + 1)

\* Number.prototype.toFixed(2) of a score
toFixed2String(x) ==
  LET hundredths == toFixed2(x)
  IN  naturalToString(hundredths \div 100) \o "."
        \o CharAt(DigitChars, ((hundredths \div 10) % 10) + 1)
        \o CharAt(DigitChars, (hundredths % 10) + 1)

\* relevanceOf with the item of the LLM left unread
relevanceOfMutLocalOnly(profile, market, categoryMatches, geminiItems) ==
  relevanceScoreStub(profile, market, categoryMatches)

\* line 383: the relevance of a market
relevanceOf(profile, market, categoryMatches, geminiItems) ==
  IF geminiHas(geminiItems, market.id)
    THEN clampScore(DivRound(geminiGet(geminiItems, market.id).relevanceScore, 100), 0, Micro)
    ELSE relevanceScoreStub(profile, market, categoryMatches)

\* line 388, in hundredths of a millionth:
\* relevance * 0.6 + liquidity * 0.25 + timeScore * 0.15
signalBlend(relevance, liquidity, timeScore) ==
  relevance * 60 + liquidity * 25 + timeScore * 15

\* Number(signalScore.toFixed(3))
signalScoreOf(relevance, liquidity, timeScore) ==
  DivRound(signalBlend(relevance, liquidity, timeScore), 100 * 1000) * 1000

\* the signal of one market, lines 381-412
rankedSignal(profile, market, categoryMatches, geminiItems, now) ==
  LET hasItem == geminiHas(geminiItems, market.id)
      geminiItem == geminiGet(geminiItems, market.id)
      relevance == relevanceOf(profile, market, categoryMatches, geminiItems)
      liquidity == liquidityScore(market)
      timeScore == timeAlignmentScore(market, now)
  IN  [market |-> market,
       relevanceScore |-> toFixed3(relevance),
       proxyStrength |->
         IF hasItem THEN geminiItem.proxyStrength ELSE proxyStrengthFromRelevance(relevance),
       signalScore |-> signalScoreOf(relevance, liquidity, timeScore),
       mappedRisk |->
         IF hasItem THEN geminiItem.mappedRisk
         ELSE mappedRiskFromProfile(profile, market.categoryId),
       rationale |->
         IF hasItem /\ Len(geminiItem.rationale) > 0 THEN geminiItem.rationale
         ELSE "Relevance " \o toFixed2String(relevance)
                \o " | Liquidity " \o toFixed2String(liquidity)
                \o " | Time " \o toFixed2String(timeScore)]

\* lines 381-414: every filtered market scored, then sorted by signalScore
rankSignals(profile, categoryMatches, markets, geminiItems, now) ==
  LET ranked == [i \in 1..Len(markets) |->
                   rankedSignal(profile, markets[i], categoryMatches, geminiItems, now)]
  IN  sortDescending(ranked, [i \in 1..Len(ranked) |-> ranked[i].signalScore])

(***************************************************************************)
(* src/unnamed/part_008: the endpoint /api/profile.  The text of the LLM   *)
(* is carried as what JSON.parse makes of it: blank says that the text is  *)
(* empty once trimmed, quoted that the text is a JSON string holding JSON  *)
(* text, and json is the value, of kind (t) none when nothing parses even  *)
(* after the text is cut from its first to its last bracket, falsy for     *)
(* null, false, 0 and "", and number, string, array or object otherwise.   *)
(* A member of an object that is no string is NullString.                  *)
(***************************************************************************)
JsonObject(industry, location, seasonality, revenueDrivers, keyCosts, exposures, keywords,
           assumptions) ==
  [t |-> "object", industry |-> industry, location |-> location, seasonality |-> seasonality,
   revenueDrivers |-> revenueDrivers, keyCosts |-> keyCosts, exposures |-> exposures,
   keywords |-> keywords, assumptions |-> assumptions]

\* a value that has none of the members of a profile
JsonOther(t) ==
  [JsonObject(NullString, NullString, NullString, NotAnArray, NotAnArray, NotAnArray,
              NotAnArray, NotAnArray) EXCEPT !.t = t]

JsonNull == JsonOther("falsy")

\* lines 474-510
parseGeminiJson(text) ==
  IF text.quoted
    THEN IF text.json.t \in {"none", "falsy"} THEN JsonOther("string") ELSE text.json
    ELSE IF text.json.t = "none" THEN JsonNull ELSE text.json

\* lines 520-545; the result null is [isNull |-> TRUE, ...]
sanitizeProfile(raw) ==
  [isNull |-> raw.t \notin {"object", "array"},
   industry |-> raw.industry,
   location |-> raw.location,
   seasonality |-> raw.seasonality,
   revenueDrivers |-> ArrayOf(sanitizeStringArray(raw.revenueDrivers)),
   keyCosts |-> ArrayOf(sanitizeStringArray(raw.keyCosts)),
   exposures |-> ArrayOf(sanitizeStringArray(raw.exposures)),
   keywords |-> ArrayOf(sanitizeStringArray(raw.keywords)),
   assumptions |-> ArrayOf(sanitizeAssumptions(raw.assumptions))]

NoBody == [sanitizeProfile(JsonNull) EXCEPT !.isNull = TRUE]

\* sendJson(res, status, { error })
sendError(status, error) == [status |-> status, error |-> error, body |-> NoBody]

\* lines 1062-1102, and the catch of lines 1150-1154.  server says whether
\* GEMINI_API_KEY is set and what generateContent does: it throws, or it
\* answers with a text.
profileEndpoint(server, body) ==
  IF ~server.apiKey THEN sendError(500, "missing_api_key")
  ELSE IF trim(body.input) = "" THEN sendError(400, "missing_input")
  ELSE IF server.llm = "throws" THEN sendError(500, "server_error")
  ELSE IF server.text.blank THEN sendError(502, "empty_response")
  ELSE IF sanitizeProfile(parseGeminiJson(server.text)).isNull
    THEN sendError(502, "invalid_json")
  ELSE [status |-> 200, error |-> "", body |-> sanitizeProfile(parseGeminiJson(server.text))]

\* response.ok
responseOk(response) == 200 <= response.status /\ response.status <= 299

NoProfile ==
  [rawInput |-> "", industry |-> NullString, location |-> NullString, region |-> NullString,
   seasonality |-> NullString, revenueDrivers |-> <<>>, keyCosts |-> <<>>,
   assumptions |-> <<>>, revenueSeason |-> NoSeason, exposures |-> <<>>, keywords |-> <<>>]

\* part_005 lines 197-220 with postJson, lines 161-173.  call says whether the
\* request reaches the server (network) and what the server does.  The promise
\* is rejected (threw) when fetch fails or the answer is not 2xx.
extractBusinessProfileCall(input, call) ==
  LET response == profileEndpoint(call.server, [input |-> input])
  IN  IF ~call.network \/ ~responseOk(response)
        THEN [threw |-> TRUE, profile |-> NoProfile]
        ELSE [threw |-> FALSE, profile |-> extractBusinessProfileWithGemini(input, response.body)]

\* part_005 lines 359-361 without the catch: a rejection leaves no profile
resolvedProfileMutNoCatch(input, call) == extractBusinessProfileCall(input, call)

\* part_005 lines 359-361: extractBusinessProfileWithGemini(input).catch(() =>
\* mockExtractBusinessProfile(input))
resolvedProfile(input, call) ==
  IF extractBusinessProfileCall(input, call).threw
    THEN [threw |-> FALSE, profile |-> mockExtractBusinessProfile(input)]
    ELSE extractBusinessProfileCall(input, call)

\* an item of the assumptions of the LLM
AssumptionItem(isObject, field, value, score, basis) ==
  [isObject |-> isObject, field |-> field, value |-> value, confidence |-> score,
   basis |-> basis]

LlmText(blank, quoted, json) == [blank |-> blank, quoted |-> quoted, json |-> json]

LogisticsObject ==
  JsonObject("Logistics", NullString, NullString, NotAnArray, NotAnArray, NotAnArray,
             NotAnArray, NotAnArray)

DetailedObject ==
  JsonObject(NullString, "Tampa", "Peak from November to April",
             ArrayOf(<<" citrus sales ", NullString, "  ", "juice">>), NotAnArray,
             ArrayOf(<<"frost">>), ArrayOf(<<"citrus", "frost">>),
             ArrayOf(<<AssumptionItem(TRUE, "industry", NullString, Absent, "stated"),
                       AssumptionItem(FALSE, NullString, NullString, Absent, NullString),
                       AssumptionItem(TRUE, NullString, NullString, Num(90), NullString),
                       AssumptionItem(TRUE, NullString, "Florida", Num(90), NullString)>>))

EmptyObject ==
  JsonObject(NullString, NullString, NullString, NotAnArray, NotAnArray, NotAnArray,
             NotAnArray, NotAnArray)

\* the texts the LLM may answer with to the prompt of /api/profile
ProfileTexts ==
  {LlmText(TRUE, FALSE, JsonOther("none")),
   LlmText(FALSE, FALSE, JsonOther("none")),
   LlmText(FALSE, FALSE, JsonOther("falsy")),
   LlmText(FALSE, FALSE, JsonOther("number")),
   LlmText(FALSE, TRUE, JsonOther("none")),
   LlmText(FALSE, FALSE, JsonOther("array")),
   LlmText(FALSE, FALSE, EmptyObject),
   LlmText(FALSE, FALSE, LogisticsObject),
   LlmText(FALSE, TRUE, DetailedObject),
   LlmText(FALSE, FALSE, DetailedObject)}

ProfileServer(apiKey, llm, text) == [apiKey |-> apiKey, llm |-> llm, text |-> text]

ProfileCall(network, server) == [network |-> network, server |-> server]

AnsweringServer == ProfileServer(TRUE, "answers", LlmText(FALSE, FALSE, LogisticsObject))

\* what may happen to the request POST /api/profile
ProfileCalls ==
  {ProfileCall(FALSE, AnsweringServer),
   ProfileCall(TRUE, ProfileServer(FALSE, "answers", LlmText(FALSE, FALSE, LogisticsObject))),
   ProfileCall(TRUE, ProfileServer(TRUE, "throws", LlmText(FALSE, FALSE, LogisticsObject)))}
  \cup {ProfileCall(TRUE, ProfileServer(TRUE, "answers", text)) : text \in ProfileTexts}

\* the two of them a whole run is followed with
RankProfileCalls == {ProfileCall(FALSE, AnsweringServer), ProfileCall(TRUE, AnsweringServer)}

NoCall == ProfileCall(FALSE, ProfileServer(FALSE, "throws", LlmText(TRUE, FALSE, JsonNull)))

\* the characters of market ids, in the order of their code units
CodeUnitOrder == "-0123456789ABCDEFGHIJKLMNOPQRSTUVWXYZ_abcdefghijklmnopqrstuvwxyz"

\* a <= b in the lexical order of strings
RECURSIVE LexicalLeq(_, _)
LexicalLeq(a, b) ==
  IF a = "" THEN TRUE
  ELSE IF b = "" THEN FALSE
  ELSE IF CharAt(a, 1) = CharAt(b, 1)
    THEN LexicalLeq(SubSeq(a, 2, Len(a)), SubSeq(b, 2, Len(b)))
  ELSE IndexIn(CharAt(a, 1), CodeUnitOrder) < IndexIn(CharAt(b, 1), CodeUnitOrder)

(***************************************************************************)
(* src/unnamed/part_009: the selection of the series of the venue for the  *)
(* requested categories                                                    *)
(***************************************************************************)
KalshiPlan(seriesCategory, tags, titleKeywords) ==
  [seriesCategory |-> seriesCategory, tags |-> tags, titleKeywords |-> titleKeywords]

\* lines 1-47; NullString for the seriesCategory that is undefined
KALSHI_CATEGORY_PLANS ==
  [agriculture |->
     KalshiPlan("Climate and Weather",
                <<"Hurricanes", "Natural disasters", "Snow and rain", "Climate change">>,
                <<"crop", "yield", "harvest", "citrus", "orange", "dairy", "farm",
                  "agriculture">>),
   weather |->
     KalshiPlan("Climate and Weather",
                <<"Hurricanes", "Natural disasters", "Snow and rain", "Climate change">>,
                <<"hurricane", "storm", "rain", "snow", "temperature", "drought", "flood",
                  "heat", "cold">>),
   energy |->
     KalshiPlan("Economics", <<"Oil and energy">>,
                <<"oil", "gas", "energy", "power", "electric", "fuel", "wti", "brent">>),
   logistics |->
     KalshiPlan("Economics", <<"Growth">>,
                <<"shipping", "freight", "logistics", "port", "supply chain", "delivery",
                  "trucking">>),
   tourism |->
     KalshiPlan("Companies", <<"KPIs">>,
                <<"travel", "hotel", "tourism", "airline", "passenger", "vacation",
                  "resort">>),
   finance |->
     KalshiPlan("Economics",
                <<"Fed", "Inflation", "Employment", "Growth", "Housing", "Mortgages">>,
                <<"inflation", "rates", "cpi", "gdp", "recession", "unemployment", "fed",
                  "mortgage", "housing">>),
   health |->
     KalshiPlan(NullString, <<>>,
                <<"health", "flu", "hospital", "outbreak", "disease", "pandemic">>),
   technology |->
     KalshiPlan("Science and Technology", <<"AI", "Space", "Energy">>,
                <<"technology", "software", "ai", "semiconductor", "cloud", "space">>)]
  @@ ("real-estate" :>
        KalshiPlan("Economics", <<"Housing", "Mortgages">>,
                   <<"housing", "mortgage", "rent", "property", "construction",
                     "real estate", "home prices">>))

\* lines 54-55, the defaults
MAX_SERIES_PER_CATEGORY == 5
MAX_TOTAL_SERIES == 10

\* the names every object inherits from Object.prototype that are functions, with
\* the length of the function: KALSHI_CATEGORY_PLANS[name] and
\* tagsByCategory[name] give that function
InheritedFunctionLength ==
  [constructor |-> 1, hasOwnProperty |-> 1, toString |-> 0, valueOf |-> 0]

\* KALSHI_CATEGORY_PLANS[category], lines 104 and 121: a plan, a function that
\* is inherited, or undefined
planLookup(category) ==
  IF category \in DOMAIN KALSHI_CATEGORY_PLANS
    THEN [t |-> "plan", plan |-> KALSHI_CATEGORY_PLANS[category]]
  ELSE IF category \in DOMAIN InheritedFunctionLength
    THEN [t |-> "function", length |-> InheritedFunctionLength[category]]
  ELSE [t |-> "undefined"]

\* getTagsForCategories(categories).tagsByCategory, lines 99-113: the tags of the
\* categories whose plan has tags
RECURSIVE tagsByCategoryOf(_)
tagsByCategoryOf(categories) ==
  IF categories = <<>> THEN <<>>
  ELSE LET init == tagsByCategoryOf(SubSeq(categories, 1, Len(categories) - 1))
           category == categories[Len(categories)]
           found == planLookup(category)
       IN  IF found.t = "plan" /\ found.plan.tags # <<>>
             THEN (category :> found.plan.tags) @@ init
             ELSE init

\* the first keyword of the plan the normalized title includes, lines 146-148;
\* NullString when there is none
RECURSIVE findTitleKeyword(_, _, _)
findTitleKeyword(titleKeywords, i, title) ==
  IF i > Len(titleKeywords) THEN NullString
  ELSE IF includes(normalize(title), normalize(titleKeywords[i])) THEN titleKeywords[i]
  ELSE findTitleKeyword(titleKeywords, i + 1, title)

\* lines 127-157 for one series and a plan: what is pushed to candidates, or
\* nothing
seriesCandidate(category, plan, tagsByCategory, series) ==
  LET planTags == IF category \in DOMAIN tagsByCategory
                    THEN tagsByCategory[category] ELSE plan.tags
      keyword == IF series.title # ""
                   THEN findTitleKeyword(plan.titleKeywords, 1, series.title)
                   ELSE NullString
      score == (IF planTags # <<>> THEN 3 ELSE 0) + (IF keyword # NullString THEN 2 ELSE 0)
      reasons == [i \in 1..Len(planTags) |-> "tag:" \o planTags[i]]
                   \o (IF keyword # NullString THEN <<"keyword:" \o keyword>> ELSE <<>>)
  IN  IF series.ticker = "" THEN <<>>
      ELSE IF /\ plan.seriesCategory # NullString
              /\ (series.category = ""
                    \/ normalize(series.category) # normalize(plan.seriesCategory))
        THEN <<>>
      ELSE IF score = 0 THEN <<>>
      ELSE <<[ticker |-> series.ticker, score |-> score, reasons |-> reasons]>>

RECURSIVE seriesCandidates(_, _, _, _)
seriesCandidates(category, plan, tagsByCategory, seriesList) ==
  IF seriesList = <<>> THEN <<>>
  ELSE seriesCandidate(category, plan, tagsByCategory, Head(seriesList))
         \o seriesCandidates(category, plan, tagsByCategory, Tail(seriesList))

\* the comparator of lines 160 and 173 is negative: a has the higher score, or
\* the scores are equal and the ticker of a comes first.  localeCompare orders
\* the characters of venue tickers (capitals, digits, hyphen) as their code
\* units are ordered.
seriesComesFirst(a, b) ==
  \/ a.score > b.score
  \/ a.score = b.score /\ a.ticker # b.ticker /\ LexicalLeq(a.ticker, b.ticker)

RECURSIVE insertSeries(_, _)
insertSeries(sorted, item) ==
  IF sorted = <<>> THEN <<item>>
  ELSE IF seriesComesFirst(item, Head(sorted)) THEN <<item>> \o sorted
  ELSE <<Head(sorted)>> \o insertSeries(Tail(sorted), item)

\* Array.prototype.sort with that comparator; the sort is stable
RECURSIVE sortSeries(_)
sortSeries(items) ==
  IF items = <<>> THEN <<>>
  ELSE insertSeries(sortSeries(SubSeq(items, 1, Len(items) - 1)), items[Len(items)])

\* lines 164-170: the limited candidates of a category are pushed, but for the
\* tickers already selected
RECURSIVE pushLimited(_, _, _)
pushLimited(limited, category, acc) ==
  IF limited = <<>> THEN acc
  ELSE LET item == Head(limited)
           known == \E i \in 1..Len(acc.selected) : acc.selected[i].ticker = item.ticker
       IN  pushLimited(Tail(limited), category,
                       IF known THEN acc
                       ELSE [acc EXCEPT !.selected = Append(@, item),
                                        !.categoryMap =
                                          IF item.ticker \in DOMAIN @ THEN @
                                          ELSE @ @@ (item.ticker :> category)])

\* the loop of lines 120-171 from the i-th category on.  With a category that
\* names an inherited function of length above 0, planTags is that function:
\* the score of the first series with a ticker is raised and planTags.map, which
\* is undefined, is called (line 142), a TypeError.
RECURSIVE selectFrom(_, _, _, _, _)
selectFrom(categories, i, seriesList, tagsByCategory, acc) ==
  IF i > Len(categories) THEN acc
  ELSE LET found == planLookup(categories[i])
       IN  IF found.t = "undefined"
             THEN selectFrom(categories, i + 1, seriesList, tagsByCategory, acc)
           ELSE IF found.t = "function"
             THEN IF found.length > 0 /\ \E k \in 1..Len(seriesList) : seriesList[k].ticker # ""
                    THEN [acc EXCEPT !.threw = TRUE]
                    ELSE selectFrom(categories, i + 1, seriesList, tagsByCategory, acc)
           ELSE LET candidates ==
                      sortSeries(seriesCandidates(categories[i], found.plan, tagsByCategory,
                                                  seriesList))
                    limited == sliceTo(candidates, MAX_SERIES_PER_CATEGORY)
                    pushed == pushLimited(limited, categories[i], acc)
                IN  selectFrom(categories, i + 1, seriesList, tagsByCategory,
                               [pushed EXCEPT !.capped =
                                  @ \/ Len(candidates) > Len(limited)])

\* selectSeriesForHedgiCategories, lines 115-186
selectSeriesForHedgiCategories(categories, seriesList, tagsByCategory) ==
  LET looped == selectFrom(categories, 1, seriesList, tagsByCategory,
                           [threw |-> FALSE, selected |-> <<>>, categoryMap |-> <<>>,
                            capped |-> FALSE])
      sorted == sortSeries(looped.selected)
      finalSelected == sliceTo(sorted, MAX_TOTAL_SERIES)
  IN  IF looped.threw
        THEN [threw |-> TRUE, selected |-> <<>>, tickers |-> <<>>, categoryMap |-> <<>>,
              capped |-> FALSE]
        ELSE [threw |-> FALSE,
              selected |-> finalSelected,
              tickers |-> [k \in 1..Len(finalSelected) |-> finalSelected[k].ticker],
              categoryMap |-> looped.categoryMap,
              capped |-> looped.capped \/ Len(looped.selected) > MAX_TOTAL_SERIES]

(***************************************************************************)
(* src/unnamed/part_008: the endpoint /api/rank-markets.  The text of the  *)
(* LLM parses to [t |-> "array", items |-> ...]; an item is [isNull, id,   *)
(* marketId, relevanceScore, proxyStrength, mappedRisk, rationale], with   *)
(* NullString for a member that is no string.                              *)
(***************************************************************************)
JsonArray(items) == [t |-> "array", items |-> items]

RankItem(isNull, id, marketId, relevanceScore, proxyStrength, mappedRisk, rationale) ==
  [isNull |-> isNull, id |-> id, marketId |-> marketId, relevanceScore |-> relevanceScore,
   proxyStrength |-> proxyStrength, mappedRisk |-> mappedRisk, rationale |-> rationale]

\* the body of the loop of sanitizeRankings, lines 552-570, for one item that is
\* kept; the score is in points
sanitizedRanking(item) ==
  [marketId |-> IF item.id # NullString THEN item.id ELSE item.marketId,
   relevanceScore |-> Max(0, Min(100, IF TypeofNumber(item.relevanceScore)
                                        THEN item.relevanceScore.v ELSE 0)),
   proxyStrength |-> IF item.proxyStrength \in {"strong", "partial", "weak"}
                       THEN item.proxyStrength ELSE "weak",
   mappedRisk |-> IF item.mappedRisk # NullString THEN item.mappedRisk ELSE "market risk",
   rationale |-> IF item.rationale # NullString THEN sliceString(item.rationale, 140) ELSE ""]

\* the id of lines 553: item.id, else item.marketId, else ""
rankingId(item) ==
  IF item.id # NullString THEN item.id
  ELSE IF item.marketId # NullString THEN item.marketId ELSE ""

\* sanitizeRankings throws a TypeError: an item is null, line 553
sanitizeRankingsThrows(raw) ==
  raw.t = "array" /\ \E i \in 1..Len(raw.items) : raw.items[i].isNull

\* sanitizeRankings without the test of line 554 against the allowed ids
sanitizeRankingsMutKeepsAnyId(raw, allowedIds) ==
  IF raw.t # "array" THEN <<>>
  ELSE LET kept == SelectSeq(raw.items, LAMBDA item : rankingId(item) # "")
       IN  [i \in 1..Len(kept) |-> sanitizedRanking(kept[i])]

\* sanitizeRankings, lines 547-574
sanitizeRankings(raw, allowedIds) ==
  IF raw.t # "array" THEN <<>>
  ELSE LET kept == SelectSeq(raw.items,
                             LAMBDA item : rankingId(item) # ""
                                           /\ rankingId(item) \in Range(allowedIds))
       IN  [i \in 1..Len(kept) |-> sanitizedRanking(kept[i])]

\* sendJson(res, 200, body)
sendBody(body) == [status |-> 200, error |-> "", body |-> body]

\* sendJson(res, status, { error }) of the endpoints other than /api/profile
sendFailure(status, error) == [status |-> status, error |-> error, body |-> <<>>]

\* lines 1104-1147, and the catch of lines 1150-1154.  body.markets are the ids of
\* the markets sent; body.profile says whether a profile was sent.
rankMarketsEndpoint(server, body) ==
  IF ~server.apiKey THEN sendFailure(500, "missing_api_key")
  ELSE IF ~body.profile \/ body.markets = <<>> THEN sendFailure(400, "missing_payload")
  ELSE IF server.llm = "throws" THEN sendFailure(500, "server_error")
  ELSE IF server.text.blank THEN sendFailure(502, "empty_response")
  ELSE IF sanitizeRankingsThrows(parseGeminiJson(server.text))
    THEN sendFailure(500, "server_error")
  ELSE IF sanitizeRankings(parseGeminiJson(server.text), body.markets) = <<>>
    THEN sendFailure(502, "invalid_json")
  ELSE sendBody(sanitizeRankings(parseGeminiJson(server.text), body.markets))

(***************************************************************************)
(* src/server/gemini-proxy.js: the endpoint /api/analyze.  Its             *)
(* parseGeminiJson looks for the last object of the text when the text     *)
(* does not parse, and gives null for everything that is no object.        *)
(***************************************************************************)
\* lines 25-165
parseGeminiObject(text) ==
  IF text.json.t = "object" THEN text.json ELSE JsonNull

\* lines 167-249, for a request POST /api/analyze.  retryText is what the LLM answers to the second prompt.
analyzeEndpoint(server, body) ==
  IF ~server.apiKey THEN sendFailure(500, "missing_api_key")
  ELSE IF trim(body.business) = "" THEN sendFailure(400, "missing_business")
  ELSE IF server.llm = "throws" THEN sendFailure(500, "server_error")
  ELSE IF server.text.blank THEN sendFailure(502, "empty_response")
  ELSE IF parseGeminiObject(server.text).t = "object"
    THEN sendBody(parseGeminiObject(server.text))
  ELSE IF server.retry = "throws" THEN sendFailure(500, "server_error")
  ELSE IF ~server.retryText.blank /\ parseGeminiObject(server.retryText).t = "object"
    THEN sendBody(parseGeminiObject(server.retryText))
  ELSE sendFailure(502, "invalid_json")

(***************************************************************************)
(* src/unnamed/part_007: the scores of the LLM.  A score is in units of    *)
(* 1/ScoreUnit point.  A member of an item is a number (num), a string     *)
(* that reads as a number (numeral), null, true, or anything else (other), *)
(* which Number() turns into NaN.                                          *)
(***************************************************************************)
ScoreUnit == 3 * 100

Points(n) == Num(n * ScoreUnit)
Numeral(n) == [k |-> "numeral", v |-> n * ScoreUnit]
JsonTrue == [k |-> "true", v |-> 0]
OtherValue == [k |-> "other", v |-> 0]

\* Number(value)
ToNumber(value) ==
  IF value.k \in {"num", "numeral"} THEN Num(value.v)
  ELSE IF value.k = "null" THEN Num(0)
  ELSE IF value.k = "true" THEN Num(ScoreUnit)
  ELSE NotANumber

\* clamp of sanitizeScores, lines 639-643, and clampScore of part_006, lines
\* 132-136
scoreClamp(value) ==
  IF ToNumber(value).k = "nan" THEN 0
  ELSE Max(0, Min(10 * ScoreUnit, ToNumber(value).v))

\* the mean as line 663 computes it: (relevance + hedging + timing) / 3
meanOfThree(relevance, hedging, timing) == (relevance + hedging + timing) \div 3

\* overall of lines 660-663 with the score of the LLM never read
overallScoreMutAlwaysMean(item) ==
  meanOfThree(scoreClamp(item.relevance_score), scoreClamp(item.hedging_utility_score),
              scoreClamp(item.timing_score))

\* overall, lines 660-663 (part_006 lines 146-149)
overallScore(item) ==
  IF TypeofNumber(item.overall_score)
    THEN scoreClamp(item.overall_score)
    ELSE Max(0, Min(10 * ScoreUnit,
                    meanOfThree(scoreClamp(item.relevance_score),
                                scoreClamp(item.hedging_utility_score),
                                scoreClamp(item.timing_score))))

\* an item of scored_markets as the LLM writes it
ScoreItem(isObject, ticker, market_ticker, title, relevance_score, hedging_utility_score,
          timing_score, overall_score) ==
  [isObject |-> isObject, ticker |-> ticker, market_ticker |-> market_ticker,
   title |-> title, platform |-> NullString, relevance_score |-> relevance_score,
   hedging_utility_score |-> hedging_utility_score, timing_score |-> timing_score,
   overall_score |-> overall_score, reasoning |-> NullString]

\* the ticker of lines 648-653
scoreTicker(item) ==
  IF item.ticker # NullString THEN item.ticker
  ELSE IF item.market_ticker # NullString THEN item.market_ticker ELSE ""

\* the object of lines 670-679
scoredMarket(item) ==
  [ticker |-> scoreTicker(item),
   title |-> stringOrEmpty(item.title),
   platform |-> IF item.platform # NullString THEN item.platform ELSE "kalshi",
   relevance_score |-> scoreClamp(item.relevance_score),
   hedging_utility_score |-> scoreClamp(item.hedging_utility_score),
   timing_score |-> scoreClamp(item.timing_score),
   overall_score |-> overallScore(item),
   reasoning |-> stringOrEmpty(item.reasoning)]

\* sanitizeScores, lines 633-682.  raw is the parsed text: an object with the
\* member scored_markets, or any other value.
sanitizeScores(raw, allowedTickers, allowedMarketTickers) ==
  IF raw.t \notin {"object", "array"} THEN <<>>
  ELSE IF raw.t = "array" \/ ~raw.scored_markets.isArray THEN <<>>
  ELSE LET kept == SelectSeq(raw.scored_markets.items,
                             LAMBDA item :
                               /\ item.isObject
                               /\ scoreTicker(item) # ""
                               /\ scoreTicker(item) \in
                                    Range(allowedTickers) \cup Range(allowedMarketTickers))
       IN  [i \in 1..Len(kept) |-> scoredMarket(kept[i])]

JsonScores(scored_markets) == [t |-> "object", scored_markets |-> scored_markets]

\* a row of the table markets, as searchMarketsByKeywords returns it
MarketRow(ticker, title, market_ticker, price_yes) ==
  [platform |-> "kalshi", ticker |-> ticker, title |-> title,
   market_ticker |-> market_ticker, price_yes |-> price_yes]

\* markets.map((market) => market.market_ticker).filter(Boolean), line 818
marketTickersOf(markets) ==
  SelectSeq([i \in 1..Len(markets) |-> markets[i].market_ticker], Truthy)

\* /api/score-markets, lines 730-832.  The keywords the dictionary keeps of a
\* keyword text that parses (server.keywords), the keywords it finds in the
\* description (server.fallbackKeywords) and the rows the search finds
\* (server.markets) are drawn; the inputs read from the description are not
\* carried.
scoreMarketsEndpoint(server, body) ==
  LET geminiKeywords ==
        IF parseGeminiJson(server.keywordText).t \in {"object", "array"}
          THEN server.keywords ELSE <<>>
      finalKeywords ==
        sliceTo(distinctInOrder(geminiKeywords \o server.fallbackKeywords), 10)
  IN  IF trim(body.businessDescription) = ""
        THEN sendFailure(400, "missing_business_description")
      ELSE IF ~server.apiKey THEN sendFailure(500, "missing_api_key")
      ELSE IF server.llm = "throws" THEN sendFailure(500, "scoring_failed")
      ELSE IF server.keywordText.blank THEN sendFailure(502, "empty_keyword_response")
      ELSE IF finalKeywords = <<>>
        THEN sendBody([keywords |-> <<>>, markets |-> <<>>, scored_markets |-> <<>>])
      ELSE IF server.markets = <<>>
        THEN sendBody([keywords |-> finalKeywords, markets |-> <<>>,
                       scored_markets |-> <<>>])
      ELSE IF server.scoring = "throws" THEN sendFailure(500, "scoring_failed")
      ELSE IF server.text.blank THEN sendFailure(502, "empty_score_response")
      ELSE sendBody([keywords |-> finalKeywords,
                     markets |-> server.markets,
                     scored_markets |->
                       sanitizeScores(parseGeminiJson(server.text),
                                      [i \in 1..Len(server.markets) |->
                                         server.markets[i].ticker],
                                      marketTickersOf(server.markets))])

(***************************************************************************)
(* src/unnamed/part_006: runHedgiSnapshot on the answer of                 *)
(* /api/score-markets                                                      *)
(***************************************************************************)
\* normalizeMarkets, lines 116-130
normalizeMarkets(value) ==
  SelectSeq(value, LAMBDA item : item.ticker # "" /\ item.title # "")

\* normalizeScoredMarkets, lines 138-167, on the scored markets of the answer,
\* whose scores are numbers
normalizeScoredMarkets(value) ==
  LET mapped == [i \in 1..Len(value) |->
                   [platform |-> value[i].platform,
                    ticker |-> value[i].ticker,
                    title |-> value[i].title,
                    relevance_score |-> scoreClamp(Num(value[i].relevance_score)),
                    hedging_utility_score |-> scoreClamp(Num(value[i].hedging_utility_score)),
                    timing_score |-> scoreClamp(Num(value[i].timing_score)),
                    overall_score |-> scoreClamp(Num(value[i].overall_score)),
                    reasoning |-> value[i].reasoning,
                    market_ticker |-> NullString,
                    price_yes |-> NullValue]]
  IN  SelectSeq(mapped, LAMBDA item : item.ticker # "" /\ item.title # "")

\* the places of a list in ascending order of ticker: a.ticker.localeCompare(
\* b.ticker) on tickers of capital letters, digits and hyphens
tickerKeys(seq) ==
  [i \in 1..Len(seq) |->
     0 - Cardinality({j \in 1..Len(seq) :
                        seq[j].ticker # seq[i].ticker /\ LexicalLeq(seq[j].ticker, seq[i].ticker)})]

\* lines 182-196: sorted by overall_score, the highest first, then by ticker; the
\* market ticker and the price are those of the match
snapshotScoredMarkets(response) ==
  LET scored == normalizeScoredMarkets(response.scored_markets)
      matches == normalizeMarkets(response.markets)
      byTicker == sortDescending(scored, tickerKeys(scored))
      sorted == sortDescending(byTicker,
                               [i \in 1..Len(byTicker) |-> byTicker[i].overall_score])
      matchOf(market) ==
        SelectSeq(matches, LAMBDA item : item.ticker = market.ticker)
  IN  [i \in 1..Len(sorted) |->
         IF matchOf(sorted[i]) = <<>> THEN sorted[i]
         ELSE [sorted[i] EXCEPT
                 !.market_ticker = Coalesce(matchOf(sorted[i])[1].market_ticker, @),
                 !.price_yes = IF TypeofNumber(matchOf(sorted[i])[1].price_yes)
                                 THEN matchOf(sorted[i])[1].price_yes ELSE @]]

(***************************************************************************)
(* src/src/pages/Results.tsx and src/unnamed/part_002: the two Results     *)
(* pages and the request each of them makes when it is mounted.  A         *)
(* response of the API server is [ok, status, error, details, json]: json  *)
(* says whether its body is JSON, error and details are the members of the *)
(* body ("" when absent).                                                  *)
(***************************************************************************)
ApiResponse(status, error, details, json) ==
  [ok |-> 200 <= status /\ status <= 299, status |-> status, error |-> error,
   details |-> details, json |-> json]

DefaultMessage ==
  "We could not reach the AI service. Please check the API server and try again."

\* getErrorMessage of Results.tsx, lines 132-154
analysisErrorMessage(code, status) ==
  CASE code = "missing_api_key" ->
         "Missing Gemini API key. Add GEMINI_API_KEY to your .env and restart the API server."
    [] code = "missing_business" ->
         "No business description was sent. Please go back and try again."
    [] code = "invalid_json" ->
         "The AI service returned invalid JSON. Check the API server logs and try again."
    [] code = "empty_response" ->
         "The AI service returned an empty response. Please try again."
    [] code = "gemini_request_failed" ->
         "The AI request failed. Check the API server logs and try again."
    [] OTHER ->
         IF status = 404
           THEN "API server not reachable. Ensure npm run dev:api is running and the Vite proxy is configured."
         ELSE IF status >= 500 THEN "The AI server encountered an error. Please try again."
         ELSE DefaultMessage

\* getErrorMessage of part_002, lines 10-25
snapshotErrorMessage(code) ==
  CASE code = "missing_api_key" ->
         "Missing GEMINI_API_KEY. Add it to your .env and restart the backend server."
    [] code \in {"missing_business", "missing_business_description"} ->
         "No business description was sent. Please go back and try again."
    [] code = "empty_keyword_response" ->
         "The AI service returned an empty keyword response. Please try again."
    [] code = "empty_score_response" ->
         "The AI service returned an empty scoring response. Please try again."
    [] OTHER -> DefaultMessage

\* the message of the error JSON.parse throws
SyntaxErrorMessage == "Unexpected token < in JSON at position 0"

\* Results.tsx lines 177-190: the message thrown for a response that is not ok
analysisFailureMessage(response) ==
  LET code == IF response.json /\ response.error # "" THEN response.error
              ELSE "analysis_failed"
      details == IF response.json THEN response.details ELSE ""
      message == analysisErrorMessage(code, response.status)
  IN  IF details # "" THEN message \o " (" \o details \o ")" ELSE message

\* postJson of part_006, lines 61-68: the message of the Error thrown for a
\* response that is not ok
postJsonFailure(response) ==
  LET errorCode == IF response.json /\ response.error # "" THEN response.error
                   ELSE "request_failed"
      details == IF response.json THEN response.details ELSE ""
  IN  IF details # "" THEN errorCode \o ": " \o details ELSE errorCode

\* the state of a page: error, isLoading and the result it shows
PageState(error, isLoading, result) ==
  [error |-> error, isLoading |-> isLoading, result |-> result]

\* how runAnalysis of Results.tsx ends, lines 167-202, once the request has
\* settled; outcome is "rejected" (fetch rejected), "unreadable" (response.json()
\* rejected) or "read".  The result is what setError, setResults and
\* setIsLoading leave of the state.
runAnalysisEnd(state, aborted, outcome, response) ==
  LET failed == outcome = "rejected" \/ ~response.ok \/ outcome = "unreadable"
      message == IF outcome = "rejected" THEN DefaultMessage
                 ELSE IF ~response.ok THEN analysisFailureMessage(response)
                 ELSE SyntaxErrorMessage
  IN  [error |-> IF failed /\ ~aborted THEN message ELSE state.error,
       isLoading |-> IF aborted THEN state.isLoading ELSE FALSE,
       result |-> IF failed THEN state.result ELSE "results"]

\* how the promise of runHedgiSnapshot ends in part_002, lines 73-82: the page
\* holds no signal and tests none
runSnapshotEnd(state, outcome, response) ==
  LET failed == outcome = "rejected" \/ ~response.ok \/ outcome = "unreadable"
      code == IF outcome = "rejected" THEN "Failed to fetch"
              ELSE IF ~response.ok THEN postJsonFailure(response)
              ELSE "Cannot read properties of null (reading 'keywords')"
  IN  [error |-> IF failed THEN snapshotErrorMessage(code) ELSE state.error,
       isLoading |-> FALSE,
       result |-> IF failed THEN state.result ELSE "snapshot"]

(***************************************************************************)
(* src/server/lib/kalshiClient.js: the markets of one series.  The venue   *)
(* answers page by page; a page is [status, batch, cursor, retryAfter],    *)
(* with status 0 for a request that fails on the network.  PageLimit and   *)
(* MaxPages stand for PAGE_LIMIT = 100 and MAX_PAGES = 50, scaled down.    *)
(***************************************************************************)
PageLimit == 2
MaxPages == 2

\* a market as the venue lists it
VenueMarket(ticker, title, liquidity, open_interest) ==
  [ticker |-> ticker, title |-> title, liquidity |-> liquidity,
   open_interest |-> open_interest]

\* the header retry-after: absent, a number of seconds, or an HTTP date given
\* in seconds from now
NoHeader == [k |-> "absent", v |-> 0]
SecondsHeader(n) == [k |-> "seconds", v |-> n]
DateHeader(fromNow) == [k |-> "date", v |-> fromNow]

Page(status, batch, cursor, retryAfter) ==
  [status |-> status, batch |-> batch, cursor |-> cursor, retryAfter |-> retryAfter]

\* what the venue answers when it is asked beyond the pages it was given
LastPage == Page(200, <<>>, NullString, NoHeader)

pageAt(pages, i) == IF i <= Len(pages) THEN pages[i] ELSE LastPage

\* getRetryAfterSeconds, lines 169-183
getRetryAfterSeconds(header) ==
  IF header.k \in {"seconds", "date"} /\ header.v > 0 THEN Num(header.v) ELSE NullValue

\* the result of fetchKalshiMarketsForSeries; requests counts the requests made
seriesResult(markets, cacheHit, rateLimited, retryAfterSec, requests) ==
  [threw |-> FALSE, error |-> "", markets |-> markets, cacheHit |-> cacheHit,
   rateLimited |-> rateLimited, retryAfterSec |-> retryAfterSec, requests |-> requests]

\* throw new Error(message), lines 228-229 and 245-248
seriesThrows(message, requests) ==
  [seriesResult(<<>>, FALSE, FALSE, NullValue, requests) EXCEPT
     !.threw = TRUE, !.error = message]

\* the loop of lines 213-248 with the 429 of lines 240-243 raised like any other
\* status that is not 2xx
RECURSIVE fetchPagesMutThrowOn429(_, _, _)
fetchPagesMutThrowOn429(venuePages, pages, markets) ==
  LET response == pageAt(venuePages, pages + 1)
      collected == markets \o response.batch
  IN  IF response.status = 0 THEN seriesThrows("kalshi_fetch_failed", pages + 1)
      ELSE IF ~responseOk(response)
        THEN seriesThrows("kalshi_http_" \o naturalToString(response.status), pages + 1)
      ELSE IF Len(response.batch) < PageLimit \/ response.cursor = NullString
                \/ pages + 1 >= MaxPages
        THEN seriesResult(collected, FALSE, FALSE, NullValue, pages + 1)
      ELSE fetchPagesMutThrowOn429(venuePages, pages + 1, collected)

\* the loop of lines 213-248: pages have been fetched and markets collected
RECURSIVE fetchPages(_, _, _)
fetchPages(venuePages, pages, markets) ==
  LET response == pageAt(venuePages, pages + 1)
      collected == markets \o response.batch
  IN  IF response.status = 0 THEN seriesThrows("kalshi_fetch_failed", pages + 1)
      ELSE IF response.status = 429
        THEN seriesResult(markets, FALSE, TRUE,
                          getRetryAfterSeconds(response.retryAfter), pages + 1)
      ELSE IF ~responseOk(response)
        THEN seriesThrows("kalshi_http_" \o naturalToString(response.status), pages + 1)
      ELSE IF Len(response.batch) < PageLimit \/ response.cursor = NullString
                \/ pages + 1 >= MaxPages
        THEN seriesResult(collected, FALSE, FALSE, NullValue, pages + 1)
      ELSE fetchPages(venuePages, pages + 1, collected)

\* fetchKalshiMarketsForSeries, lines 195-252.  cache holds the entries of
\* marketsCache that are younger than MARKETS_TTL_MS, by series ticker.
fetchKalshiMarketsForSeries(seriesTicker, cache, venuePages) ==
  IF seriesTicker = "" THEN seriesResult(<<>>, FALSE, FALSE, NullValue, 0)
  ELSE IF seriesTicker \in DOMAIN cache
    THEN seriesResult(cache[seriesTicker], TRUE, FALSE, NullValue, 0)
  ELSE fetchPages(venuePages, 0, <<>>)

\* line 4, the default
MARKETS_TTL_MS == 60000

\* buildMarketsCacheKey, lines 175-176; NullString for null
buildMarketsCacheKey(seriesTicker, status, closeMin, closeMax) ==
  seriesTicker \o "|" \o (IF Truthy(status) THEN status ELSE "open")
    \o "|" \o (IF Truthy(closeMin) THEN closeMin ELSE "")
    \o "|" \o (IF Truthy(closeMax) THEN closeMax ELSE "")

\* the test of line 215 with <= for <
cachedAndFreshMutAtTtl(cache, cacheKey, clock) ==
  /\ cacheKey \in DOMAIN cache
  /\ clock - cache[cacheKey].fetchedAtMs <= MARKETS_TTL_MS

\* lines 214-215: marketsCache has an entry of the key and it is younger than
\* MARKETS_TTL_MS
cachedAndFresh(cache, cacheKey, clock) ==
  /\ cacheKey \in DOMAIN cache
  /\ clock - cache[cacheKey].fetchedAtMs < MARKETS_TTL_MS

\* lines 209-217: what the call returns before any request, or that it goes on
\* to fetch (pending)
marketsCacheLookup(args, cache, clock) ==
  LET cacheKey == buildMarketsCacheKey(args.seriesTicker, args.status, args.closeMin,
                                       args.closeMax)
  IN  IF ~Truthy(args.seriesTicker)
        THEN [pending |-> FALSE, result |-> seriesResult(<<>>, FALSE, FALSE, NullValue, 0)]
      ELSE IF cachedAndFresh(cache, cacheKey, clock)
        THEN [pending |-> FALSE,
              result |-> seriesResult(cache[cacheKey].markets, TRUE, FALSE, NullValue, 0)]
      ELSE [pending |-> TRUE, result |-> seriesResult(<<>>, FALSE, FALSE, NullValue, 0)]

\* line 259: marketsCache.set(cacheKey, {markets, fetchedAtMs: Date.now()})
marketsCacheSet(cache, cacheKey, markets, clock) ==
  [k \in DOMAIN cache \cup {cacheKey} |->
     IF k = cacheKey THEN [markets |-> markets, fetchedAtMs |-> clock] ELSE cache[k]]

(***************************************************************************)
(* src/unnamed/part_009: the markets of the selected series                *)
(***************************************************************************)
\* a || b on strings
OrElse(a, b) == IF Truthy(a) THEN a ELSE b

\* normalizeMarket, lines 259-280: the id, the title, the category and the
\* liquidity; the close time, the outcomes, the volume and the url are not
\* carried
normalizeMarket(market, categoryId) ==
  [id |-> OrElse(market.ticker, categoryId \o "-" \o OrElse(market.title, "Kalshi market")),
   source |-> "kalshi",
   title |-> OrElse(market.title, "Kalshi market"),
   categoryId |-> categoryId,
   liquidity |-> IF TypeofNumber(market.liquidity) THEN market.liquidity
                 ELSE market.open_interest]

\* categoryMap[ticker] || "finance", line 293
categoryOf(categoryMap, ticker) ==
  IF ticker \in DOMAIN categoryMap THEN categoryMap[ticker] ELSE "finance"

\* the locals of fetchMarketsForSeriesTickers, lines 283-288
NoProgress ==
  [markets |-> <<>>, cacheHits |-> 0, cacheMisses |-> 0, seriesFetched |-> 0,
   rateLimited |-> FALSE, retryAfterSec |-> NullValue]

\* one turn of the loop, lines 290-315, on the result of the series
seriesTurn(progress, result, categoryId) ==
  IF result.rateLimited
    THEN [progress EXCEPT !.rateLimited = TRUE,
                          !.retryAfterSec = result.retryAfterSec,
                          !.seriesFetched = @ + 1,
                          !.cacheMisses = @ + 1]
    ELSE [progress EXCEPT
            !.cacheHits = IF result.cacheHit THEN @ + 1 ELSE @,
            !.cacheMisses = IF result.cacheHit THEN @ ELSE @ + 1,
            !.seriesFetched = IF result.cacheHit THEN @ ELSE @ + 1,
            !.markets = @ \o [i \in 1..Len(result.markets) |->
                                normalizeMarket(result.markets[i], categoryId)]]

\* the value fetchMarketsForSeriesTickers returns, lines 318-330
seriesTickersResult(tickers, progress) ==
  [markets |-> progress.markets,
   meta |-> [seriesSelected |-> Len(tickers),
             seriesFetched |-> progress.seriesFetched,
             cacheHits |-> progress.cacheHits,
             cacheMisses |-> progress.cacheMisses,
             rateLimited |-> progress.rateLimited,
             retryAfterSec |-> progress.retryAfterSec,
             partial |-> progress.rateLimited,
             marketsTotal |-> Len(progress.markets)]]

(***************************************************************************)
(* src/unnamed/part_008: the endpoint /api/markets/kalshi                  *)
(***************************************************************************)
\* lines 866-886
kalshiAnswer(result) ==
  [status |-> 200,
   markets |-> result.markets,
   meta |-> [seriesSelected |-> result.meta.seriesSelected,
             seriesFetched |-> result.meta.seriesFetched,
             marketsTotal |-> Len(result.markets),
             cacheHits |-> result.meta.cacheHits,
             cacheMisses |-> result.meta.cacheMisses,
             rateLimited |-> result.meta.rateLimited,
             partial |-> result.meta.partial,
             retryAfterSec |-> result.meta.retryAfterSec,
             error |-> NullString]]

\* the catch of lines 887-908
kalshiErrorAnswer(message) ==
  [status |-> 200,
   markets |-> <<>>,
   meta |-> [seriesSelected |-> 0, seriesFetched |-> 0, marketsTotal |-> 0, cacheHits |-> 0,
             cacheMisses |-> 0, rateLimited |-> FALSE, partial |-> FALSE,
             retryAfterSec |-> NullValue, error |-> message]]

(***************************************************************************)
(* src/backend/sync.js: fetchJson, the request of the sync job with its    *)
(* retries.  Times are in milliseconds.                                    *)
(***************************************************************************)
MAX_RETRIES == 3
BACKOFF_MS == 1000
MaxBackoffMs == 15000

\* getRetryAfterMs, lines 78-89; NullValue for null
getRetryAfterMs(header) ==
  IF header.k \in {"seconds", "date"} /\ header.v > 0
    THEN Num(header.v * 1000) ELSE NullValue

\* what one call of fetchJson does with the response, lines 91-104: it waits and
\* calls itself, it throws, or it returns the parsed body.  Status 0 is a
\* request that fetchWithTimeout fails.
fetchJsonTurn(response, retries, backoffMs) ==
  IF response.status = 0
    THEN [kind |-> "thrown", error |-> "fetch failed", waitMs |-> 0]
  ELSE IF response.status = 429 /\ retries > 0
    THEN [kind |-> "retry", error |-> "",
          waitMs |-> IF getRetryAfterMs(response.retryAfter) = NullValue
                       THEN backoffMs ELSE getRetryAfterMs(response.retryAfter).v]
  ELSE IF ~responseOk(response)
    THEN [kind |-> "thrown", error |-> "HTTP " \o naturalToString(response.status),
          waitMs |-> 0]
  ELSE [kind |-> "value", error |-> "", waitMs |-> 0]

\* lines 4 and 52: the least time between two requests, for the configured
\* requests per second (KALSHI_RPS, 5 when it is not set)
MIN_INTERVAL_MS(requestsPerSecond) == Max(1, 1000 \div Max(1, requestsPerSecond))

\* line 57: how long the task of scheduleRequest sleeps
scheduleWaitMs(last, requestsPerSecond, clock) ==
  Max(0, last + MIN_INTERVAL_MS(requestsPerSecond) - clock)

(***************************************************************************)
(* The calls of the calculator.  One call is drawn, then made.             *)
(***************************************************************************)
VARIABLES qCall, qResult, qpc

\* the run of buildRankedSignals: its argument, the setting VITE_USE_REAL_KALSHI,
\* its locals, the clock, the place the run has reached, and the result of the
\* ranking step run a second time
VARIABLES input, profileCall, useRealKalshi, profile, categoryMatches, now, kalshiMarkets,
          polymarketMarkets, filteredMarkets, geminiRanked, ranked, rankedAt, reranked, pc

quoteVars == <<qCall, qResult, qpc>>

rankVars ==
  <<input, profileCall, useRealKalshi, profile, categoryMatches, now, kalshiMarkets, polymarketMarkets,
    filteredMarkets, geminiRanked, ranked, rankedAt, reranked, pc>>

(***************************************************************************)
(* A request POST /api/markets/kalshi: the series selected, the entries of *)
(* marketsCache, the place in the loop of fetchMarketsForSeriesTickers and *)
(* its locals, what the venue answered for each series so far, the results *)
(* of fetchKalshiMarketsForSeries so far, the answer, and the place the    *)
(* handler has reached.                                                    *)
(***************************************************************************)
VARIABLES kTickers, kCache, kIndex, kProgress, kVenue, kResults, kReply, kpc

kalshiVars == <<kTickers, kCache, kIndex, kProgress, kVenue, kResults, kReply, kpc>>

NoAnswer == [kalshiErrorAnswer("") EXCEPT !.status = 0]

KalshiIdle ==
  /\ kTickers = <<>>
  /\ kCache = <<>>
  /\ kIndex = 1
  /\ kProgress = NoProgress
  /\ kVenue = <<>>
  /\ kResults = <<>>
  /\ kReply = NoAnswer
  /\ kpc = "off"

(***************************************************************************)
(* A call of fetchJson of the sync job: the configured retries and backoff, *)
(* the retries left, the backoff, the responses and the waits so far, the  *)
(* status of the last response, the outcome, and the place the call has    *)
(* reached.                                                                *)
(***************************************************************************)
VARIABLES sConfigured, sRetries, sBackoffMs, sResponses, sWaits, sLastStatus, sOutcome, spc

syncVars ==
  <<sConfigured, sRetries, sBackoffMs, sResponses, sWaits, sLastStatus, sOutcome, spc>>

SyncIdle ==
  /\ sConfigured = [retries |-> 0, backoffMs |-> 0]
  /\ sResponses = <<>>
  /\ sRetries = 0
  /\ sBackoffMs = 0
  /\ sWaits = <<>>
  /\ sLastStatus = 0
  /\ sOutcome = [kind |-> "none", error |-> ""]
  /\ spc = "off"

\* one call of an endpoint that asks the LLM: the endpoint, what the server
\* meets, the body of the request, the answer, and the snapshot the client
\* builds of the answer of /api/score-markets
VARIABLES lEndpoint, lServer, lBody, lReply, lSnapshot, lpc

llmVars == <<lEndpoint, lServer, lBody, lReply, lSnapshot, lpc>>

LlmIdle ==
  /\ lEndpoint = ""
  /\ lServer = <<>>
  /\ lBody = <<>>
  /\ lReply = <<>>
  /\ lSnapshot = <<>>
  /\ lpc = "idle"

\* a Results page: which of the two it is, the business it finds stored, where
\* its request is, the response, whether the page is mounted, the abort signal
\* of its controller, whether the network call was cancelled, the state of the
\* page, and what the page had when it was unmounted with its request in flight
VARIABLES aPage, aBusiness, apc, aResponse, aMounted, aAborted, aCancelled, aState, aLeft

abortVars == <<aPage, aBusiness, apc, aResponse, aMounted, aAborted, aCancelled, aState, aLeft>>

NoResponse == [ok |-> FALSE, status |-> 0, error |-> "", details |-> "", json |-> FALSE]

NotLeft == [inFlight |-> FALSE, state |-> [error |-> "", isLoading |-> FALSE, result |-> ""]]

AbortIdle ==
  /\ aPage = ""
  /\ aBusiness = ""
  /\ apc = "idle"
  /\ aResponse = NoResponse
  /\ aMounted = FALSE
  /\ aAborted = FALSE
  /\ aCancelled = FALSE
  /\ aState = NotLeft.state
  /\ aLeft = NotLeft

\* the rate queue of the sync job: the configured requests per second, the
\* clock Date.now() reads, the callers whose task is in the chain of rateQueue
\* and has not finished, whether the first task sleeps and when its timer is
\* due, lastRequestAt, where each caller is, and the history: the callers in
\* the order they called scheduleRequest, and the requests released
VARIABLES tRps, tClock, tChain, tSleeping, tDue, lastRequestAt, tCaller, tInvoked, tReleased

rateVars ==
  <<tRps, tClock, tChain, tSleeping, tDue, lastRequestAt, tCaller, tInvoked, tReleased>>

RateIdle ==
  /\ tRps = 0
  /\ tClock = 0
  /\ tChain = <<>>
  /\ tSleeping = FALSE
  /\ tDue = 0
  /\ lastRequestAt = 0
  /\ tCaller = <<>>
  /\ tInvoked = <<>>
  /\ tReleased = <<>>

\* the two fetches of a run of buildRankedSignals: which of the two versions of
\* the function runs, the setting VITE_USE_REAL_KALSHI, the top categories,
\* the fetch of each adapter and of the mock that stands in for an empty live
\* answer, the history (whether the Kalshi fetch was pending when the
\* Polymarket fetch was started, the order the fetches completed in), the
\* argument and the result of hygieneFilter, whether ranking has started, and
\* the place the run has reached
VARIABLES fVersion, fUseRealKalshi, fCategories, fKalshi, fPolymarket, fStandIn,
          fKalshiAtPolymarketStart, fCompleted, fCandidates, fFiltered, fRanking, fpc

fanVars ==
  <<fVersion, fUseRealKalshi, fCategories, fKalshi, fPolymarket, fStandIn,
    fKalshiAtPolymarketStart, fCompleted, fCandidates, fFiltered, fRanking, fpc>>

Fetch(status, markets) == [status |-> status, markets |-> markets]

NotInvoked == Fetch("notInvoked", <<>>)

FanIdle ==
  /\ fVersion = ""
  /\ fUseRealKalshi = FALSE
  /\ fCategories = <<>>
  /\ fKalshi = NotInvoked
  /\ fPolymarket = NotInvoked
  /\ fStandIn = NotInvoked
  /\ fKalshiAtPolymarketStart = ""
  /\ fCompleted = <<>>
  /\ fCandidates = <<>>
  /\ fFiltered = <<>>
  /\ fRanking = FALSE
  /\ fpc = "off"

\* a call of selectSeriesForHedgiCategories: the requested categories, the list
\* of series of the venue, what the call gave, and the place it has reached
VARIABLES selCategories, selSeriesList, selResult, selpc

selectVars == <<selCategories, selSeriesList, selResult, selpc>>

SelectIdle ==
  /\ selCategories = <<>>
  /\ selSeriesList = <<>>
  /\ selResult = <<>>
  /\ selpc = "off"

\* marketsCache of kalshiClient.js over calls of fetchKalshiMarketsForSeries: the
\* clock, the cache, and the calls made so far, each with its arguments, what
\* it found in the cache when it began, and its result
VARIABLES cClock, marketsCache, cCalls

cacheVars == <<cClock, marketsCache, cCalls>>

CacheIdle ==
  /\ cClock = 0
  /\ marketsCache = <<>>
  /\ cCalls = <<>>

\* runSync of part_007 over its invocations: the flag, the runs invoked so far
\* (each with what it saw of the flag, where it stands, and its calls of
\* syncCategory), and whether a run wrote rows while another run held the flag
VARIABLES isSyncing, runs, wroteBesideAnotherRun

runVars == <<isSyncing, runs, wroteBesideAnotherRun>>

RunIdle ==
  /\ isSyncing = FALSE
  /\ runs = <<>>
  /\ wroteBesideAnotherRun = FALSE

\* one paginated fetch of the venue: the function that fetches, the pages it
\* has read, the length and the cursor of the last page, and where it stands
VARIABLES pFetcher, pPages, pLast, ppc

pagingVars == <<pFetcher, pPages, pLast, ppc>>

PagingIdle ==
  /\ pFetcher = ""
  /\ pPages = 0
  /\ pLast = [length |-> 0, cursor |-> ""]
  /\ ppc = "off"

vars == <<quoteVars, rankVars, kalshiVars, syncVars, llmVars, abortVars, rateVars, fanVars, selectVars, cacheVars, runVars, pagingVars>>

\* what the calculator leaves alone, what a run of buildRankedSignals does, and
\* what a request to /api/markets/kalshi does
outsideQuote == <<rankVars, kalshiVars, syncVars, llmVars, abortVars, rateVars, fanVars, selectVars, cacheVars, runVars, pagingVars>>
outsideRank == <<quoteVars, kalshiVars, syncVars, llmVars, abortVars, rateVars, fanVars, selectVars, cacheVars, runVars, pagingVars>>
outsideKalshi == <<quoteVars, rankVars, syncVars, llmVars, abortVars, rateVars, fanVars, selectVars, cacheVars, runVars, pagingVars>>
outsideSync == <<quoteVars, rankVars, kalshiVars, llmVars, abortVars, rateVars, fanVars, selectVars, cacheVars, runVars, pagingVars>>
outsideLlm == <<quoteVars, rankVars, kalshiVars, syncVars, abortVars, rateVars, fanVars, selectVars, cacheVars, runVars, pagingVars>>
outsideAbort == <<quoteVars, rankVars, kalshiVars, syncVars, llmVars, rateVars, fanVars, selectVars, cacheVars, runVars, pagingVars>>
outsideRate == <<quoteVars, rankVars, kalshiVars, syncVars, llmVars, abortVars, fanVars, selectVars, cacheVars, runVars, pagingVars>>
outsideFan == <<quoteVars, rankVars, kalshiVars, syncVars, llmVars, abortVars, rateVars, selectVars, cacheVars, runVars, pagingVars>>
outsideSelect == <<quoteVars, rankVars, kalshiVars, syncVars, llmVars, abortVars, rateVars, fanVars, cacheVars, runVars, pagingVars>>
outsideCache == <<quoteVars, rankVars, kalshiVars, syncVars, llmVars, abortVars, rateVars, fanVars, selectVars, runVars, pagingVars>>
outsideRun == <<quoteVars, rankVars, kalshiVars, syncVars, llmVars, abortVars, rateVars, fanVars, selectVars, cacheVars, pagingVars>>
outsidePaging == <<quoteVars, rankVars, kalshiVars, syncVars, llmVars, abortVars, rateVars, fanVars, selectVars, cacheVars, runVars>>

\* no run of buildRankedSignals
RankIdle ==
  /\ input = ""
  /\ profileCall = NoCall
  /\ useRealKalshi = FALSE
  /\ profile = <<>>
  /\ categoryMatches = <<>>
  /\ now = 0
  /\ kalshiMarkets = <<>>
  /\ polymarketMarkets = <<>>
  /\ filteredMarkets = <<>>
  /\ geminiRanked = <<>>
  /\ ranked = <<>>
  /\ rankedAt = 0
  /\ reranked = <<>>
  /\ pc = "off"

\* the number n/d, d a power of two dividing n * G
Q(n, d) == Fin((n * G) \div d)

PricePool ==
  {Zero, Q(3, 32), Q(1, 4), Q(1, 2), Q(31, 32), One, Q(3, 2), Q(-1, 4), NaN}

ProfitPool == {Zero, Q(10, 1), Q(-7, 2), Huge, NegHuge, NaN, PosInf}

LossPool == {Zero, Q(-1, 1), NaN, PosInf, Q(1, 4), Q(5, 2), Q(7, 1), Q(20, 1)}

CoveragePool == {Undefined, Zero, Q(1, 2), Q(3, 4), Q(2, 1), Q(-1, 1), NaN}

MaxCostPool ==
  {Undefined, Null, Zero, Q(1, 4), One, Q(25, 16), Q(3, 1), Q(-1, 1), PosInf, NaN}

PercentPool ==
  {Zero, Q(-1, 1), NaN, PosInf, Q(1, 4), Q(1, 2), One, Q(2, 1), Q(50, 1), Hundred,
   Q(128, 1), Q(200, 1)}

BaselinePool == {Undefined, Zero, Q(-1, 1), Q(10, 1), Q(24, 1), NaN}

QuoteInputs ==
  [market_id : {"M1"}, price_yes : PricePool, expected_profit : ProfitPool,
   loss_if_event : LossPool, hedge_coverage : CoveragePool,
   max_hedge_cost : MaxCostPool]

PercentInputs ==
  [market_id : {"P1"}, price_yes : {Q(3, 32), Q(1, 4), One, NaN},
   loss_if_event_percent : PercentPool, hedge_coverage : {Undefined, Q(1, 2), Q(2, 1)},
   max_hedge_cost : {Undefined, Null, One}, baseline_loss : BaselinePool]

QuoteCalls ==
  {[fn |-> "computeHedgeQuote", arg |-> i] : i \in QuoteInputs}
    \cup {[fn |-> "computeHedgeQuotePercent", arg |-> i] : i \in PercentInputs}

InitQuote ==
  /\ qCall \in QuoteCalls
  /\ qResult = [status |-> "pending"]
  /\ qpc = "ready"
  /\ RankIdle
  /\ KalshiIdle
  /\ SyncIdle
  /\ LlmIdle
  /\ AbortIdle
  /\ RateIdle
  /\ FanIdle
  /\ SelectIdle
  /\ CacheIdle
  /\ RunIdle
  /\ PagingIdle

CallComputeHedgeQuote ==
  /\ qpc = "ready"
  /\ qCall.fn = "computeHedgeQuote"
  /\ qResult' = computeHedgeQuote(qCall.arg)
  /\ qpc' = "done"
  /\ UNCHANGED <<qCall, outsideQuote>>

CallComputeHedgeQuotePercent ==
  /\ qpc = "ready"
  /\ qCall.fn = "computeHedgeQuotePercent"
  /\ qResult' = computeHedgeQuotePercent(qCall.arg)
  /\ qpc' = "done"
  /\ UNCHANGED <<qCall, outsideQuote>>

NextQuote == CallComputeHedgeQuote \/ CallComputeHedgeQuotePercent

SpecQuote == InitQuote /\ [][NextQuote]_vars

(***************************************************************************)
(* Claims about the calculator                                             *)
(***************************************************************************)
QuoteReturned ==
  qpc = "done" /\ qCall.fn = "computeHedgeQuote" /\ qResult.status = "ok"

\* x limited to [0, 1], NaN staying NaN
ClampUnit(x) == IF Lt(x, Zero) THEN Zero ELSE IF Lt(One, x) THEN One ELSE x

NoBudgetCap == qCall.arg.max_hedge_cost \in {Undefined, Null}

\* C1: for every accepted input with no budget cap (max_hedge_cost absent or
\* null), contracts_to_buy = contracts_needed = ceil(loss_if_event * c), c the
\* hedge_coverage clamped to [0, 1] (1 when absent), and coverage_achieved =
\* contracts_to_buy / loss_if_event.
C1_NoCapBuysNeeded ==
  (QuoteReturned /\ NoBudgetCap) =>
    LET a == qCall.arg
        c == IF IsNumber(a.hedge_coverage) THEN ClampUnit(a.hedge_coverage) ELSE One
    IN  /\ qResult.contracts_to_buy = qResult.contracts_needed
        /\ qResult.contracts_needed = MathCeil(fMul(a.loss_if_event, c))
        /\ qResult.coverage_achieved = fDiv(qResult.contracts_to_buy, a.loss_if_event)

\* a partial coverage whose target payout is not whole: the ceiling rounds up
C1_Witness ==
  /\ QuoteReturned /\ NoBudgetCap
  /\ qCall.arg.hedge_coverage = Q(1, 2)
  /\ Lt(qResult.target_payout, qResult.contracts_needed)
  /\ Lt(Zero, qResult.coverage_achieved)

BudgetSet ==
  IsNumber(qCall.arg.max_hedge_cost) /\ Le(Zero, qCall.arg.max_hedge_cost)

C2_Sizing ==
  LET a == qCall.arg
  IN  /\ qResult.contracts_to_buy =
           MathMin(qResult.contracts_needed,
                   MathFloor(fDiv(a.max_hedge_cost, a.price_yes)))
      /\ qResult.total_cost = fMul(qResult.contracts_to_buy, a.price_yes)

\* C2 as stated: with max_hedge_cost set to a non-negative number,
\* contracts_to_buy = min(contracts_needed, floor(max_hedge_cost / price_yes))
\* and total_cost = contracts_to_buy * price_yes never exceeds max_hedge_cost.
C2_CostNeverExceedsBudget ==
  (QuoteReturned /\ BudgetSet) =>
    (C2_Sizing /\ ~Lt(qCall.arg.max_hedge_cost, qResult.total_cost))

\* total <= budget * (1 + eps)^2, eps = 2^-MantBits the unit roundoff of the
\* number format (one rounding in the division, one in the product)
WithinRounding(total, budget) ==
  (total.k = "fin" /\ budget.k = "fin") =>
    total.v * Pow2(MantBits) * Pow2(MantBits)
      <= budget.v * (Pow2(MantBits) + 1) * (Pow2(MantBits) + 1)

\* C2 amended: with max_hedge_cost set to a non-negative number,
\* contracts_to_buy = min(contracts_needed, floor(max_hedge_cost / price_yes))
\* and total_cost = contracts_to_buy * price_yes exceeds max_hedge_cost by no
\* more than the rounding of the two floating point operations.
C2_CostWithinRoundingOfBudget ==
  (QuoteReturned /\ BudgetSet) =>
    (C2_Sizing /\ WithinRounding(qResult.total_cost, qCall.arg.max_hedge_cost))

\* the budget binds: fewer contracts bought than needed, at a positive cost
C2_Witness ==
  /\ QuoteReturned /\ BudgetSet
  /\ Lt(qResult.contracts_to_buy, qResult.contracts_needed)
  /\ Lt(Zero, qResult.total_cost)

PriceValid(x) == x.k = "fin" /\ 0 < x.v /\ x.v < G
ProfitValid(x) == x.k = "fin"
LossValid(x) == x.k = "fin" /\ x.v > 0

\* C3: validation is in a fixed order and the first error that applies is the
\* one thrown: invalid_price_yes unless 0 < price_yes < 1, then
\* invalid_expected_profit unless expected_profit is finite and within +/-1e12,
\* then invalid_loss_if_event unless loss_if_event is finite and > 0; otherwise
\* a quote is returned.
C3_ValidationOrder ==
  (qpc = "done" /\ qCall.fn = "computeHedgeQuote") =>
    LET a == qCall.arg
    IN  IF ~PriceValid(a.price_yes) THEN qResult = Thrown("invalid_price_yes")
        ELSE IF ~ProfitValid(a.expected_profit)
          THEN qResult = Thrown("invalid_expected_profit")
        ELSE IF ~LossValid(a.loss_if_event)
          THEN qResult = Thrown("invalid_loss_if_event")
        ELSE qResult.status = "ok"

\* price_yes = 1 with the two other validated fields invalid too
C3_Witness ==
  /\ qpc = "done" /\ qCall.fn = "computeHedgeQuote"
  /\ qCall.arg.price_yes = One
  /\ qCall.arg.expected_profit = Huge
  /\ qCall.arg.loss_if_event = Zero
  /\ qResult = Thrown("invalid_price_yes")

\* C4: actual_payout = contracts_to_buy, profit_if_event = expected_profit -
\* loss_if_event + actual_payout - total_cost, profit_if_no_event =
\* expected_profit - total_cost, expected_value = price_yes * profit_if_event +
\* (1 - price_yes) * profit_if_no_event.
C4_ProfitFormulas ==
  QuoteReturned =>
    LET a == qCall.arg
        r == qResult
    IN  /\ r.actual_payout = r.contracts_to_buy
        /\ r.profit_if_event =
             fSub(fAdd(fSub(a.expected_profit, a.loss_if_event), r.actual_payout),
                  r.total_cost)
        /\ r.profit_if_no_event = fSub(a.expected_profit, r.total_cost)
        /\ r.expected_value =
             fAdd(fMul(a.price_yes, r.profit_if_event),
                  fMul(fSub(One, a.price_yes), r.profit_if_no_event))

\* a hedge that costs something and leaves the two branches different
C4_Witness ==
  /\ QuoteReturned
  /\ Lt(Zero, qResult.total_cost)
  /\ qCall.arg.expected_profit = Q(10, 1)
  /\ qResult.profit_if_event # qResult.profit_if_no_event

PercentCalled == qpc = "done" /\ qCall.fn = "computeHedgeQuotePercent"

PercentAccepted ==
  qCall.arg.loss_if_event_percent.k = "fin" /\ qCall.arg.loss_if_event_percent.v > 0

\* the core calculator on expected_profit = 0 and loss_if_event = B * f
QuoteOfFraction(f) ==
  LET a == qCall.arg
      B == IF a.baseline_loss.k = "fin" /\ a.baseline_loss.v > 0
             THEN a.baseline_loss ELSE Hundred
  IN  computeHedgeQuote(
        [market_id |-> a.market_id, price_yes |-> a.price_yes,
         expected_profit |-> Zero, loss_if_event |-> fMul(B, f),
         hedge_coverage |-> a.hedge_coverage, max_hedge_cost |-> a.max_hedge_cost])

\* C5 as stated: for every positive finite percent p, values above 100
\* included, the result is the core calculator's for loss_if_event = B * f,
\* f = p / 100 when p > 1 and f = p when p <= 1.
C5_PercentUnclamped ==
  (PercentCalled /\ PercentAccepted) =>
    LET p == qCall.arg.loss_if_event_percent
    IN  qResult = QuoteOfFraction(IF p.v > G THEN fDiv(p, Hundred) ELSE p)

\* C5 amended: f = min(1, p / 100) when p > 1 and f = p when p <= 1.
C5_PercentClampedToBaseline ==
  (PercentCalled /\ PercentAccepted) =>
    LET p == qCall.arg.loss_if_event_percent
        f == IF p.v > G THEN fDiv(p, Hundred) ELSE p
    IN  qResult = QuoteOfFraction(IF Lt(One, f) THEN One ELSE f)

\* a percent above 100 on which a quote is returned
C5_Witness ==
  /\ PercentCalled
  /\ qCall.arg.loss_if_event_percent = Q(200, 1)
  /\ qResult.status = "ok"
  /\ qResult.target_payout = qCall.arg.baseline_loss

(***************************************************************************)
(* The run of buildRankedSignals, src/unnamed/part_005 lines 358-415.      *)
(* The run is suspended at each await; the clock is read by hygieneFilter  *)
(* and by the ranking step, and never runs backwards.                      *)
(***************************************************************************)
Inputs ==
  {"Orange farm in Florida: hurricanes and heavy rain wipe out yields.",
   "Bakery"}

\* the markets /api/markets/kalshi may list
RealKalshiPool ==
  {[id |-> "KXRAIN-B", source |-> "kalshi", title |-> "Heavy rain in Florida?",
    categoryId |-> "weather", closeTime |-> "2026-12-01T12:00:00Z", liquidity |-> Absent],
   [id |-> "KXRAIN-A", source |-> "kalshi", title |-> "heavy  rain, in FLORIDA",
    categoryId |-> "weather", closeTime |-> "2027-03-01T00:00:00Z",
    liquidity |-> Num(50000)],
   [id |-> "KXRAIN-C", source |-> "kalshi", title |-> "Heavy rain in Florida?",
    categoryId |-> "weather", closeTime |-> "2027-03-01T00:00:00Z",
    liquidity |-> Num(5000)],
   [id |-> "KXRAIN-D", source |-> "kalshi", title |-> "Heavy rain in Florida?",
    categoryId |-> "weather", closeTime |-> "next spring", liquidity |-> NullValue],
   [id |-> "KXGDP-A", source |-> "kalshi", title |-> "GDP growth above 3%?",
    categoryId |-> "finance", closeTime |-> "2026-12-02T00:00:00Z", liquidity |-> Absent]}

\* a market of a malformed answer: it has no title
UntitledMarket ==
  [id |-> "KXCPI-A", source |-> "kalshi", title |-> NullString,
   categoryId |-> "finance", closeTime |-> "2027-01-01T00:00:00Z", liquidity |-> Absent]

\* the longest list of markets /api/markets/kalshi answers with
MaxKalshi == 2

\* the lists of distinct markets of a pool, of length n at most
RECURSIVE ListsUpTo(_, _)
ListsUpTo(pool, n) ==
  IF n = 0 THEN {<<>>}
  ELSE LET shorter == ListsUpTo(pool, n - 1)
       IN  shorter \cup {Append(list, market) :
                           list \in {l \in shorter : Len(l) = n - 1},
                           market \in pool}

\* the answers: the lists of distinct well-formed markets, and the malformed
\* answers, which end with the market that has no title
RealKalshiAnswers ==
  {list \in ListsUpTo(RealKalshiPool, MaxKalshi) :
     \A i, j \in 1..Len(list) : i # j => list[i] # list[j]}
    \cup {Append(list, UntitledMarket) : list \in ListsUpTo(RealKalshiPool, 1)}

GeminiItem(marketId, id, relevanceScore, proxyStrength, mappedRisk, rationale) ==
  [marketId |-> marketId, id |-> id, relevanceScore |-> relevanceScore,
   proxyStrength |-> proxyStrength, mappedRisk |-> mappedRisk, rationale |-> rationale]

LongRationale ==
  "Growth figures move borrowing costs, and borrowing costs move every order this "
    \o "business can finance before the season starts, so the contract tracks the risk closely."

\* what /api/rank-markets answers: no answer (the call fails), or a list of items
GeminiOutcomes ==
  {[ok |-> FALSE, response |-> <<>>],
   [ok |-> TRUE, response |->
      << GeminiItem("KXRAIN-B", NullString, Num(85 * Micro), "strong", "rain",
                    "Rain cuts the harvest"),
         GeminiItem(NullString, "poly-agri-corn-yield-2026", Num(250 * Micro), NullString,
                    NullString, ""),
         GeminiItem("", "KXGDP-A", Num(90 * Micro), "strong", "rates", "Skipped") >>],
   [ok |-> TRUE, response |->
      << GeminiItem("KXGDP-A", NullString, Absent, "partial", "rates", LongRationale),
         GeminiItem("poly-tech-semiconductor-2026", NullString, Num(62 * Micro + 345600),
                    "partial", NullString, NullString),
         GeminiItem("KXGDP-A", NullString, Num(40 * Micro), "weak", "rates", LongRationale) >>]}

ClockReadings ==
  {DateParse("2026-11-01T00:00:00Z").v, DateParse("2026-11-01T12:00:00Z").v,
   DateParse("2026-12-20T00:00:00Z").v}

ClockStart == DateParse("2026-11-01T00:00:00Z").v

\* line 363
topCategories(matches) ==
  [i \in 1..Min(3, Len(matches)) |-> matches[i].id]

\* lines 371-374
resolvedKalshiMarkets ==
  IF useRealKalshi /\ Len(kalshiMarkets) = 0
    THEN fetchActiveMarketsByCategories(kalshiMockMarkets, topCategories(categoryMatches))
    ELSE kalshiMarkets

\* the argument of hygieneFilter, line 376
candidateMarkets == resolvedKalshiMarkets \o polymarketMarkets

QuoteIdle ==
  /\ qCall = [fn |-> "none", arg |-> <<>>]
  /\ qResult = [status |-> "pending"]
  /\ qpc = "off"

InitRank ==
  /\ QuoteIdle
  /\ KalshiIdle
  /\ SyncIdle
  /\ LlmIdle
  /\ AbortIdle
  /\ RateIdle
  /\ FanIdle
  /\ SelectIdle
  /\ CacheIdle
  /\ RunIdle
  /\ PagingIdle
  /\ input \in Inputs
  /\ profileCall \in RankProfileCalls
  /\ useRealKalshi \in BOOLEAN
  /\ profile = NoProfile
  /\ categoryMatches = <<>>
  /\ now = ClockStart
  /\ kalshiMarkets = <<>>
  /\ polymarketMarkets = <<>>
  /\ filteredMarkets = <<>>
  /\ geminiRanked = <<>>
  /\ ranked = <<>>
  /\ rankedAt = ClockStart
  /\ reranked = <<>>
  /\ pc = "start"

\* lines 359-363: the profile of the LLM, or of the rules when the LLM fails
ExtractProfile ==
  /\ pc = "start"
  /\ LET resolved == resolvedProfile(input, profileCall)
     IN  IF resolved.threw
           THEN /\ pc' = "rejected"
                /\ UNCHANGED <<profile, categoryMatches>>
           ELSE /\ profile' = resolved.profile
                /\ categoryMatches' = inferCategoriesFromProfile(resolved.profile)
                /\ pc' = "kalshi"
  /\ UNCHANGED <<outsideRank, input, profileCall, useRealKalshi, now, kalshiMarkets,
                 polymarketMarkets, filteredMarkets, geminiRanked, ranked, rankedAt, reranked>>

\* line 367: the live adapter answers, or fails and [] stands in
FetchKalshiReal ==
  /\ pc = "kalshi"
  /\ useRealKalshi
  /\ kalshiMarkets' \in RealKalshiAnswers
  /\ pc' = "polymarket"
  /\ UNCHANGED <<outsideRank, input, profileCall, useRealKalshi, profile, categoryMatches, now,
                 polymarketMarkets, filteredMarkets, geminiRanked, ranked, rankedAt,
                 reranked>>

\* line 368
FetchKalshiMock ==
  /\ pc = "kalshi"
  /\ ~useRealKalshi
  /\ kalshiMarkets' =
       fetchActiveMarketsByCategories(kalshiMockMarkets, topCategories(categoryMatches))
  /\ pc' = "polymarket"
  /\ UNCHANGED <<outsideRank, input, profileCall, useRealKalshi, profile, categoryMatches, now,
                 polymarketMarkets, filteredMarkets, geminiRanked, ranked, rankedAt,
                 reranked>>

\* line 369
FetchPolymarket ==
  /\ pc = "polymarket"
  /\ polymarketMarkets' =
       fetchActiveMarketsByCategories(polymarketMockMarkets, topCategories(categoryMatches))
  /\ pc' = "filter"
  /\ UNCHANGED <<outsideRank, input, profileCall, useRealKalshi, profile, categoryMatches, now,
                 kalshiMarkets, filteredMarkets, geminiRanked, ranked, rankedAt, reranked>>

\* lines 371-376: the mock stands in for an empty live answer; hygieneFilter reads
\* the clock.  No catch surrounds it: when it throws, the promise of
\* buildRankedSignals is rejected.
FilterMarkets ==
  /\ pc = "filter"
  /\ \E reading \in ClockReadings :
       /\ reading >= now
       /\ now' = reading
       /\ IF hygieneFilterThrows(candidateMarkets, reading)
            THEN /\ pc' = "rejected"
                 /\ UNCHANGED filteredMarkets
            ELSE /\ pc' = "rank"
                 /\ filteredMarkets' = hygieneFilter(candidateMarkets, reading)
  /\ UNCHANGED <<outsideRank, input, profileCall, useRealKalshi, profile, categoryMatches, kalshiMarkets,
                 polymarketMarkets, geminiRanked, ranked, rankedAt, reranked>>

\* lines 378-414: the ranking of the LLM, or [] when it fails; then the ranking
\* step, which reads the clock
RankMarkets ==
  /\ pc = "rank"
  /\ \E outcome \in GeminiOutcomes, reading \in ClockReadings :
       /\ reading >= now
       /\ now' = reading
       /\ rankedAt' = reading
       /\ geminiRanked' = IF outcome.ok THEN rankMarketsWithGemini(outcome.response) ELSE <<>>
       /\ ranked' = rankSignals(profile, categoryMatches, filteredMarkets, geminiRanked',
                                reading)
  /\ pc' = "done"
  /\ UNCHANGED <<outsideRank, input, profileCall, useRealKalshi, profile, categoryMatches, kalshiMarkets,
                 polymarketMarkets, filteredMarkets, reranked>>

\* lines 381-414 once more: the ranking step run a second time on the same
\* profile, markets and LLM ranking
RankAgain ==
  /\ pc = "done"
  /\ \E reading \in ClockReadings :
       /\ reading >= now
       /\ now' = reading
       /\ reranked' = rankSignals(profile, categoryMatches, filteredMarkets, geminiRanked,
                                  reading)
  /\ pc' = "done2"
  /\ UNCHANGED <<outsideRank, input, profileCall, useRealKalshi, profile, categoryMatches, kalshiMarkets,
                 polymarketMarkets, filteredMarkets, geminiRanked, ranked, rankedAt>>

NextRank ==
  \/ ExtractProfile
  \/ FetchKalshiReal
  \/ FetchKalshiMock
  \/ FetchPolymarket
  \/ FilterMarkets
  \/ RankMarkets
  \/ RankAgain

SpecRank == InitRank /\ [][NextRank]_vars

(***************************************************************************)
(* Claims about hygieneFilter                                              *)
(***************************************************************************)
\* hygieneFilter has just returned: now is the clock reading it took
Filtered == pc = "rank"

\* (a) the close time parses and is strictly later than the reading, and
\* (b) the liquidity is absent or at least 20000
Eligible(market, reading) ==
  /\ DateParse(market.closeTime).k = "num"
  /\ DateParse(market.closeTime).v > reading
  /\ market.liquidity.k \in {"undef", "null"} \/ market.liquidity.v >= 20000

SameTitle(a, b) == normalizeTitle(a.title) = normalizeTitle(b.title)

\* the places of the first n markets that are kept: an eligible market is kept
\* exactly when no earlier kept market has its normalized title
RECURSIVE KeptPlaces(_, _, _)
KeptPlaces(markets, n, reading) ==
  IF n = 0 THEN {}
  ELSE LET earlier == KeptPlaces(markets, n - 1, reading)
       IN  IF /\ Eligible(markets[n], reading)
              /\ \A j \in earlier : ~SameTitle(markets[j], markets[n])
             THEN earlier \cup {n}
             ELSE earlier

\* the markets at a set of places, in their order
RECURSIVE AtPlaces(_, _, _)
AtPlaces(markets, places, n) ==
  IF n = 0 THEN <<>>
  ELSE AtPlaces(markets, places, n - 1) \o (IF n \in places THEN <<markets[n]>> ELSE <<>>)

\* lower case letters, digits and single inner spaces only
IsNormalized(title) ==
  /\ \A i \in 1..Len(title) : IsLowerAlnum(CharAt(title, i)) \/ CharAt(title, i) = " "
  /\ \A i \in 1..(Len(title) - 1) : ~(CharAt(title, i) = " " /\ CharAt(title, i + 1) = " ")
  /\ title # "" => (CharAt(title, 1) # " " /\ CharAt(title, Len(title)) # " ")

\* C6: hygieneFilter returns the input markets in their original order and
\* keeps a market exactly when (a) its closeTime parses and is strictly later
\* than the current time, (b) its liquidity is absent or >= 20000, and (c) no
\* earlier kept market has the same normalized title (lower case, punctuation
\* stripped, whitespace collapsed); a market dropped for expiry or low
\* liquidity never causes a later market with the same title to be dropped.
C6_HygieneFilterKeeps ==
  Filtered =>
    LET markets == candidateMarkets
        kept == KeptPlaces(markets, Len(markets), now)
    IN  /\ filteredMarkets = AtPlaces(markets, kept, Len(markets))
        /\ \A i \in 1..Len(markets) : IsNormalized(normalizeTitle(markets[i].title))
        /\ \A i \in 1..Len(markets) :
             (/\ Eligible(markets[i], now)
              /\ \A j \in 1..(i - 1) :
                   SameTitle(markets[j], markets[i]) => ~Eligible(markets[j], now))
               => i \in kept

\* a market dropped for low liquidity, for expiry or for a close time that does
\* not parse, before an eligible market of the same title that is kept
C6_Witness ==
  /\ Filtered
  /\ \E i, j \in 1..Len(candidateMarkets) :
       /\ i < j
       /\ SameTitle(candidateMarkets[i], candidateMarkets[j])
       /\ candidateMarkets[i].title # candidateMarkets[j].title
       /\ ~Eligible(candidateMarkets[i], now)
       /\ candidateMarkets[j] \in Range(filteredMarkets)
  /\ \E k \in 1..Len(candidateMarkets) :
       DateParse(candidateMarkets[k].closeTime).k = "num"
         /\ DateParse(candidateMarkets[k].closeTime).v <= now

\* C7: hygieneFilter is idempotent: applying hygieneFilter to its own output, at
\* the same clock reading, returns that output unchanged, with no further
\* removals and the same order.
C7_HygieneFilterIdempotent ==
  Filtered => hygieneFilter(filteredMarkets, now) = filteredMarkets

\* the first pass has dropped a duplicate title and a market that was not
\* eligible, and has kept at least two markets
C7_Witness ==
  /\ Filtered
  /\ Len(filteredMarkets) >= 2
  /\ \E i, j \in 1..Len(candidateMarkets) :
       /\ i < j
       /\ SameTitle(candidateMarkets[i], candidateMarkets[j])
       /\ Eligible(candidateMarkets[i], now)
       /\ Eligible(candidateMarkets[j], now)
  /\ \E k \in 1..Len(candidateMarkets) : ~Eligible(candidateMarkets[k], now)

(***************************************************************************)
(* Claims about the ranking step                                           *)
(***************************************************************************)
Ranked == pc \in {"done", "done2"}

\* C8: the list returned by buildRankedSignals is sorted in descending order of
\* signalScore, and any two signals with equal signalScore appear in ascending
\* lexical order of their market id, whatever the order in which the venue
\* adapters returned the markets.
C8_SortedWithLexicalTies ==
  Ranked =>
    \A i, j \in 1..Len(ranked) :
      i < j =>
        \/ ranked[i].signalScore > ranked[j].signalScore
        \/ /\ ranked[i].signalScore = ranked[j].signalScore
           /\ LexicalLeq(ranked[i].market.id, ranked[j].market.id)

\* what the two runs of the ranking step are compared on
SameSignals(a, b) ==
  /\ Len(a) = Len(b)
  /\ \A i \in 1..Len(a) :
       /\ a[i].market = b[i].market
       /\ a[i].relevanceScore = b[i].relevanceScore
       /\ a[i].signalScore = b[i].signalScore
       /\ a[i].proxyStrength = b[i].proxyStrength

RankedTwice == pc = "done2"

\* C9 as it is stated: for a fixed profile, a fixed list of candidate markets
\* and a fixed LLM ranking, two runs of the ranking step produce the same
\* sequence of markets with the same relevanceScore, signalScore and
\* proxyStrength for each.
C9_SameRankingTwice == RankedTwice => SameSignals(ranked, reranked)

\* the band of the days left to the close of a market at a clock reading:
\* none, 1 to 30, 31 to 90, 91 to 180, more; none when the close time does not
\* parse
TimeBand(market, reading) ==
  LET close == DateParse(market.closeTime)
  IN  IF close.k # "num" \/ close.v <= reading THEN 0
      ELSE IF close.v - reading <= 30 * TicksPerDay THEN 1
      ELSE IF close.v - reading <= 90 * TicksPerDay THEN 2
      ELSE IF close.v - reading <= 180 * TicksPerDay THEN 3
      ELSE 4

SameTimeBands ==
  \A i \in 1..Len(filteredMarkets) :
    TimeBand(filteredMarkets[i], rankedAt) = TimeBand(filteredMarkets[i], now)

\* C9: for a fixed profile, a fixed list of candidate markets and a fixed LLM
\* ranking, two runs of the ranking step that read the clock while every
\* market's days to close stay in the same band produce the same sequence of
\* markets with the same relevanceScore, signalScore and proxyStrength for each.
C9_SameRankingInSameTimeBands ==
  (RankedTwice /\ SameTimeBands) => SameSignals(ranked, reranked)

\* the clock has moved between the two runs and the days to close of a market
\* have changed, within its band
C9_Witness ==
  /\ RankedTwice /\ SameTimeBands
  /\ now # rankedAt
  /\ Len(ranked) >= 2
  /\ \E i \in 1..Len(filteredMarkets) :
       daysUntil(filteredMarkets[i].closeTime, rankedAt)
         # daysUntil(filteredMarkets[i].closeTime, now)

RankedOnce == pc = "done"

HasItem(market) == \E i \in 1..Len(geminiRanked) : geminiRanked[i].marketId = market.id
ItemOf(market) ==
  geminiRanked[CHOOSE i \in 1..Len(geminiRanked) : geminiRanked[i].marketId = market.id]

\* the relevance C10 names: the item's score / 100 limited to [0, 1], or the
\* local token-overlap score
RelevanceNamed(market) ==
  IF HasItem(market)
    THEN Max(0, Min(Micro, DivRound(ItemOf(market).relevanceScore, 100)))
    ELSE relevanceScoreStub(profile, market, categoryMatches)

\* 0.6 * relevance + 0.25 * liquidityScore + 0.15 * timeScore, in hundredths of
\* a millionth
BlendNamed(market) ==
  60 * RelevanceNamed(market) + 25 * liquidityScore(market)
    + 15 * timeAlignmentScore(market, rankedAt)

\* what C10 says of proxyStrength and rationale
LabelsNamed(signal) ==
  LET market == signal.market
  IN  IF HasItem(market)
        THEN /\ signal.proxyStrength = ItemOf(market).proxyStrength
             /\ ItemOf(market).rationale # "" => signal.rationale = ItemOf(market).rationale
        ELSE signal.proxyStrength =
               (IF RelevanceNamed(market) >= 700000 THEN "strong"
                ELSE IF RelevanceNamed(market) >= 450000 THEN "partial"
                ELSE "weak")

InUnitInterval(score) == 0 <= score /\ score <= Micro

\* C10 as it is stated: relevanceScore is the relevance and signalScore is
\* 0.6*relevance + 0.25*liquidityScore + 0.15*timeScore.
C10_ScoresAreTheBlend ==
  RankedOnce =>
    /\ Len(ranked) = Len(filteredMarkets)
    /\ \A i \in 1..Len(ranked) :
         /\ LabelsNamed(ranked[i])
         /\ ranked[i].relevanceScore = RelevanceNamed(ranked[i].market)
         /\ ranked[i].signalScore * 100 = BlendNamed(ranked[i].market)
         /\ InUnitInterval(ranked[i].relevanceScore)
         /\ InUnitInterval(ranked[i].signalScore)

\* a whole number of thousandths, half a thousandth from x at most (x and the
\* score in units of 1/scale)
RoundedToThousandths(score, x, scale) ==
  /\ score % (scale \div 1000) = 0
  /\ 2 * (score - x) <= scale \div 1000
  /\ 2 * (x - score) <= scale \div 1000

\* C10: in buildRankedSignals, for every filtered market: if the LLM ranking has
\* an item for the market id, relevance is the item's score / 100 limited to
\* [0, 1] and proxyStrength and a non-empty rationale are the item's; otherwise
\* relevance is the local token-overlap score and proxyStrength is strong for
\* relevance >= 0.7, partial for >= 0.45, weak otherwise.  relevanceScore is
\* relevance rounded to three decimals, signalScore is
\* 0.6*relevance + 0.25*liquidityScore + 0.15*timeScore rounded to three
\* decimals, and both lie in [0, 1].
C10_ScoresAreTheRoundedBlend ==
  RankedOnce =>
    /\ Len(ranked) = Len(filteredMarkets)
    /\ \A i \in 1..Len(ranked) :
         /\ ranked[i].market \in Range(filteredMarkets)
         /\ LabelsNamed(ranked[i])
         /\ RoundedToThousandths(ranked[i].relevanceScore,
                                 RelevanceNamed(ranked[i].market), Micro)
         /\ RoundedToThousandths(ranked[i].signalScore * 100,
                                 BlendNamed(ranked[i].market), 100 * Micro)
         /\ InUnitInterval(ranked[i].relevanceScore)
         /\ InUnitInterval(ranked[i].signalScore)

\* a market the LLM ranked with a rationale, a market it did not rank, and a
\* signal score that the rounding has changed
C10_Witness ==
  /\ RankedOnce
  /\ \E i \in 1..Len(ranked) :
       HasItem(ranked[i].market) /\ ranked[i].rationale = ItemOf(ranked[i].market).rationale
  /\ \E i \in 1..Len(ranked) :
       ~HasItem(ranked[i].market) /\ ranked[i].proxyStrength # "weak"
  /\ \E i \in 1..Len(ranked) : ranked[i].signalScore * 100 # BlendNamed(ranked[i].market)

(***************************************************************************)
(* The first step of buildRankedSignals alone, over more inputs and over   *)
(* everything that may happen to the request POST /api/profile.            *)
(***************************************************************************)
ProfileInputs ==
  Inputs \cup
  {"   ",
   "Ski resort in Colorado, open Dec through March. Snow, snow and SNOW!",
   "Software studio: interest rate and inflation hit loans in january",
   "We haul fuel for a warehouse in Texas from sept-nov and may to june",
   "Hotel in Texas: gas and fuel costs",
   "Rye rye bun: one two six ten pie tea jam egg nut fig oat yam cod ham kit pan pot jar tin cup mug and rye urn"}

InitProfile ==
  /\ QuoteIdle
  /\ KalshiIdle
  /\ SyncIdle
  /\ LlmIdle
  /\ AbortIdle
  /\ RateIdle
  /\ FanIdle
  /\ SelectIdle
  /\ CacheIdle
  /\ RunIdle
  /\ PagingIdle
  /\ input \in ProfileInputs
  /\ profileCall \in ProfileCalls
  /\ useRealKalshi = FALSE
  /\ profile = NoProfile
  /\ categoryMatches = <<>>
  /\ now = ClockStart
  /\ kalshiMarkets = <<>>
  /\ polymarketMarkets = <<>>
  /\ filteredMarkets = <<>>
  /\ geminiRanked = <<>>
  /\ ranked = <<>>
  /\ rankedAt = ClockStart
  /\ reranked = <<>>
  /\ pc = "start"

NextProfile == ExtractProfile

SpecProfile == InitProfile /\ [][NextProfile]_vars

(***************************************************************************)
(* Claims about the profile                                                *)
(***************************************************************************)
ProfileResolved == pc \notin {"off", "start"}

\* the causes of a failed extraction: the request does not reach the server, the
\* server answers outside 2xx, the LLM answers with nothing, or with a text that
\* does not parse into a JSON object
NetworkFailure == ~profileCall.network
Non2xx == ~responseOk(profileEndpoint(profileCall.server, [input |-> input]))
EmptyModelOutput == profileCall.server.llm = "answers" /\ profileCall.server.text.blank
UnparseableModelOutput ==
  /\ profileCall.server.llm = "answers"
  /\ ~profileCall.server.text.blank
  /\ profileCall.server.text.json.t # "object"

ProfileExtractionFailed ==
  NetworkFailure \/ Non2xx \/ EmptyModelOutput \/ UnparseableModelOutput

\* C11: when the extraction of the profile by the LLM fails (the network fails,
\* the answer is not 2xx, the LLM answers with nothing or with a text that does
\* not parse into a JSON object), buildRankedSignals goes on with a profile that
\* is equal, field by field, to mockExtractBusinessProfile(input), and no error
\* reaches its caller.
C11_FailedExtractionFallsBack ==
  (ProfileResolved /\ ProfileExtractionFailed) =>
    /\ pc # "rejected"
    /\ \A field \in DOMAIN profile : profile[field] = mockExtractBusinessProfile(input)[field]
    /\ DOMAIN profile = DOMAIN mockExtractBusinessProfile(input)

\* the LLM answered with a text that does not parse, and the rules found an
\* industry, a region and a season
C11_Witness ==
  /\ pc = "kalshi"
  /\ profileCall.network /\ profileCall.server.apiKey
  /\ UnparseableModelOutput
  /\ profile.industry = "logistics"
  /\ profile.region = "US-South"
  /\ profile.revenueSeason = [startMonth |-> 9, endMonth |-> 11, notes |-> "sept-nov"]
  /\ profile.seasonality = "sept-nov"

(***************************************************************************)
(* Claims about the run as a whole                                         *)
(***************************************************************************)
\* the signals are those of the filtered markets, one each
OneSignalPerMarket ==
  /\ Len(ranked) = Len(filteredMarkets)
  /\ \A i \in 1..Len(filteredMarkets) :
       Cardinality({j \in 1..Len(ranked) : ranked[j].market = filteredMarkets[i]}) = 1

\* C12: whatever the three external calls do (POST /api/profile, the live
\* Kalshi adapter, POST /api/rank-markets: success, HTTP error, network failure,
\* malformed payload), buildRankedSignals resolves and never rejects, and it
\* returns exactly one signal for each market that passed hygieneFilter.
C12_AlwaysResolves ==
  /\ pc # "rejected"
  /\ pc = "done" => OneSignalPerMarket

(***************************************************************************)
(* The request POST /api/markets/kalshi, src/unnamed/part_008 lines        *)
(* 857-916.  The series are selected, then fetched one by one.             *)
(***************************************************************************)
\* selection.categoryMap
SeriesCategoryMap == [ticker \in {"KXHURR", "KXRAINNYC"} |-> "weather"]

\* selection.tickers
SeriesSelections ==
  {<<>>, <<"KXHURR">>, <<"KXCPI", "KXHURR">>, <<"KXHURR", "KXCPI", "KXRAINNYC">>}

\* marketsCache when the request arrives
MarketsCaches ==
  {<<>>,
   [ticker \in {"KXCPI"} |-> <<VenueMarket("KXCPI-26DEC", "CPI above 3%?", Absent, Num(900))>>]}

HurricaneMarket == VenueMarket("KXHURR-26", "Major hurricane landfall?", Num(40000), Absent)
UnnamedMarket == VenueMarket(NullString, NullString, Absent, Absent)
RainMarket == VenueMarket("KXRAIN-NYC", "", Absent, Num(12))

\* what the venue answers to the requests for one series, page by page
VenueAnswers ==
  {<<Page(200, <<HurricaneMarket>>, NullString, NoHeader)>>,
   <<Page(200, <<HurricaneMarket, UnnamedMarket>>, "c1", NoHeader),
     Page(200, <<RainMarket>>, NullString, NoHeader)>>,
   <<Page(200, <<RainMarket, UnnamedMarket>>, "c1", NoHeader),
     Page(200, <<HurricaneMarket, HurricaneMarket>>, "c2", NoHeader),
     Page(200, <<RainMarket, RainMarket>>, "c3", NoHeader)>>,
   <<Page(429, <<>>, NullString, SecondsHeader(7))>>,
   <<Page(200, <<RainMarket, HurricaneMarket>>, "c1", NoHeader),
     Page(429, <<>>, NullString, DateHeader(0 - 5))>>,
   <<Page(500, <<>>, NullString, NoHeader)>>,
   <<Page(200, <<HurricaneMarket, RainMarket>>, "c1", NoHeader),
     Page(0, <<>>, NullString, NoHeader)>>}

InitKalshi ==
  /\ QuoteIdle
  /\ RankIdle
  /\ SyncIdle
  /\ LlmIdle
  /\ AbortIdle
  /\ RateIdle
  /\ FanIdle
  /\ SelectIdle
  /\ CacheIdle
  /\ RunIdle
  /\ PagingIdle
  /\ kTickers = <<>>
  /\ kCache \in MarketsCaches
  /\ kIndex = 1
  /\ kProgress = NoProgress
  /\ kVenue = <<>>
  /\ kResults = <<>>
  /\ kReply = NoAnswer
  /\ kpc = "select"

\* lines 863-868: the list of series is fetched and the series are selected; a
\* failure of the venue is thrown to the catch of line 887
SelectSeries ==
  /\ kpc = "select"
  /\ \/ /\ kReply' = kalshiErrorAnswer("kalshi_fetch_failed")
        /\ kpc' = "answered"
        /\ UNCHANGED kTickers
     \/ /\ kTickers' \in SeriesSelections
        /\ kpc' = IF kTickers' = <<>> THEN "return" ELSE "series"
        /\ UNCHANGED kReply
  /\ UNCHANGED <<outsideKalshi, kCache, kIndex, kProgress, kVenue, kResults>>

\* part_009 lines 290-315: one turn of the loop of fetchMarketsForSeriesTickers.
\* What fetchKalshiMarketsForSeries throws passes through it to the catch of
\* the handler, which answers at once.
FetchSeries ==
  /\ kpc = "series"
  /\ \E venuePages \in VenueAnswers :
       LET ticker == kTickers[kIndex]
           result == fetchKalshiMarketsForSeries(ticker, kCache, venuePages)
       IN  /\ kResults' = Append(kResults, result)
           /\ kVenue' = Append(kVenue, IF result.requests = 0 THEN <<>> ELSE venuePages)
           /\ IF result.threw
                THEN /\ kReply' = kalshiErrorAnswer(result.error)
                     /\ kpc' = "answered"
                     /\ UNCHANGED <<kCache, kIndex, kProgress>>
                ELSE /\ kProgress' =
                          seriesTurn(kProgress, result, categoryOf(SeriesCategoryMap, ticker))
                     /\ kCache' = IF result.cacheHit \/ result.rateLimited
                                    THEN kCache
                                    ELSE [t \in DOMAIN kCache \cup {ticker} |->
                                            IF t = ticker THEN result.markets ELSE kCache[t]]
                     /\ kIndex' = kIndex + 1
                     /\ kpc' = IF result.rateLimited \/ kIndex = Len(kTickers)
                                 THEN "return" ELSE "series"
                     /\ UNCHANGED kReply
  /\ UNCHANGED <<outsideKalshi, kTickers>>

\* part_009 lines 318-330 and part_008 lines 870-886: the loop is over and the
\* markets are sent
AnswerKalshi ==
  /\ kpc = "return"
  /\ kReply' = kalshiAnswer(seriesTickersResult(kTickers, kProgress))
  /\ kpc' = "answered"
  /\ UNCHANGED <<outsideKalshi, kTickers, kCache, kIndex, kProgress, kVenue, kResults>>

NextKalshi == SelectSeries \/ FetchSeries \/ AnswerKalshi

SpecKalshi == InitKalshi /\ [][NextKalshi]_vars

(***************************************************************************)
(* Claims about the markets of the venue                                   *)
(***************************************************************************)
\* the venue answers 429 to a request made for the series: the pages before it were
\* full pages with a cursor
AnswersTooManyRequests(venuePages) ==
  \E j \in 1..Min(Len(venuePages), MaxPages) :
    /\ venuePages[j].status = 429
    /\ \A i \in 1..(j - 1) :
         /\ venuePages[i].status = 200
         /\ Len(venuePages[i].batch) = PageLimit
         /\ venuePages[i].cursor # NullString

\* the markets of the first n series, as fetchKalshiMarketsForSeries returned
\* them, normalized
RECURSIVE MarketsOfSeries(_)
MarketsOfSeries(n) ==
  IF n = 0 THEN <<>>
  ELSE MarketsOfSeries(n - 1) \o
       [i \in 1..Len(kResults[n].markets) |->
          normalizeMarket(kResults[n].markets[i], categoryOf(SeriesCategoryMap, kTickers[n]))]

SeriesLoopOver == kpc \in {"return", "answered"}

\* the venue was asked for the k-th series last, and answered 429
RateLimitedAt(k) ==
  /\ k = Len(kVenue)
  /\ k >= 1
  /\ AnswersTooManyRequests(kVenue[k])

\* C13: when the venue answers 429 while fetchMarketsForSeriesTickers fetches
\* the k-th series, the function does not throw; it returns the markets of the
\* series 1 to k-1 with meta.rateLimited and meta.partial true, and asks for no
\* further series.  meta.partial always equals meta.rateLimited.
C13_RateLimitGivesPartialResult ==
  /\ \A k \in 1..Len(kVenue) :
       AnswersTooManyRequests(kVenue[k]) =>
         /\ k = Len(kVenue)
         /\ ~kResults[k].threw
         /\ kpc = "return" \/ (kpc = "answered" /\ kReply.meta.error = NullString)
         /\ seriesTickersResult(kTickers, kProgress).markets = MarketsOfSeries(k - 1)
         /\ seriesTickersResult(kTickers, kProgress).meta.rateLimited
         /\ seriesTickersResult(kTickers, kProgress).meta.partial
  /\ seriesTickersResult(kTickers, kProgress).meta.partial
       = seriesTickersResult(kTickers, kProgress).meta.rateLimited
  /\ kpc = "answered" =>
       /\ kReply.meta.partial = kReply.meta.rateLimited
       /\ kReply.meta.error = NullString =>
            kReply.markets = seriesTickersResult(kTickers, kProgress).markets

\* the third series is answered 429 on its second page, after two series gave
\* markets, one of them from the cache
C13_Witness ==
  /\ kpc = "answered"
  /\ RateLimitedAt(3)
  /\ Len(kVenue[3]) = 2
  /\ kResults[1].cacheHit \/ kResults[2].cacheHit
  /\ Len(kReply.markets) >= 3
  /\ kReply.meta.rateLimited /\ kReply.meta.partial
  /\ kReply.meta.seriesFetched = 2

\* the venue answers a request made for the series with a status that is neither
\* 2xx nor 429, or the request fails on the network (status 0)
AnswersFailure(venuePages) ==
  \E j \in 1..Min(Len(venuePages), MaxPages) :
    /\ ~responseOk(venuePages[j])
    /\ venuePages[j].status # 429
    /\ \A i \in 1..(j - 1) :
         /\ venuePages[i].status = 200
         /\ Len(venuePages[i].batch) = PageLimit
         /\ venuePages[i].cursor # NullString

\* C14: when the venue answers with a status that is neither 2xx nor 429, or the
\* network fails, after the markets of some series have been collected,
\* /api/markets/kalshi answers with the markets collected so far and a partial
\* flag, instead of failing or answering with an empty list.
C14_FailureKeepsCollectedMarkets ==
  (/\ kpc = "answered"
   /\ Len(kVenue) >= 1
   /\ AnswersFailure(kVenue[Len(kVenue)])
   /\ kProgress.markets # <<>>) =>
    /\ kReply.status = 200
    /\ kReply.markets = kProgress.markets
    /\ kReply.meta.partial

(***************************************************************************)
(* A call fetchJson(url) of the sync job, src/backend/sync.js lines        *)
(* 91-104, taken together with the requests of /api/markets/kalshi: the    *)
(* two places where the venue is asked.                                    *)
(***************************************************************************)
SyncResponses ==
  {Page(200, <<>>, NullString, NoHeader),
   Page(429, <<>>, NullString, NoHeader),
   Page(429, <<>>, NullString, SecondsHeader(7)),
   Page(429, <<>>, NullString, DateHeader(3)),
   Page(429, <<>>, NullString, DateHeader(0 - 5)),
   Page(500, <<>>, NullString, NoHeader),
   Page(0, <<>>, NullString, NoHeader)}

\* the values KALSHI_MAX_RETRIES and KALSHI_BACKOFF_MS are set to, lines 5-6: the
\* defaults, more retries, and a backoff above the cap
ConfiguredFetchJson ==
  {[retries |-> r, backoffMs |-> b] : r \in {MAX_RETRIES, 5}, b \in {BACKOFF_MS, 20000}}

InitSync ==
  /\ QuoteIdle
  /\ RankIdle
  /\ KalshiIdle
  /\ LlmIdle
  /\ AbortIdle
  /\ RateIdle
  /\ FanIdle
  /\ SelectIdle
  /\ CacheIdle
  /\ RunIdle
  /\ PagingIdle
  /\ sConfigured \in ConfiguredFetchJson
  /\ sRetries = sConfigured.retries
  /\ sBackoffMs = sConfigured.backoffMs
  /\ sResponses = <<>>
  /\ sWaits = <<>>
  /\ sLastStatus = 0
  /\ sOutcome = [kind |-> "none", error |-> ""]
  /\ spc = "fetch"

\* lines 92-98: the response is 429 and retries are left; the call waits and calls
\* itself with one retry less and twice the backoff
RetryFetchJson ==
  /\ spc = "fetch"
  /\ \E response \in SyncResponses :
       LET turn == fetchJsonTurn(response, sRetries, sBackoffMs)
       IN  /\ turn.kind = "retry"
           /\ sWaits' = Append(sWaits, turn.waitMs)
           /\ sResponses' = Append(sResponses, response)
           /\ sLastStatus' = response.status
  /\ sRetries' = sRetries - 1
  /\ sBackoffMs' = Min(sBackoffMs * 2, MaxBackoffMs)
  /\ UNCHANGED <<outsideSync, sConfigured, sOutcome, spc>>

\* lines 100-103: the call throws, or returns the body
FinishFetchJson ==
  /\ spc = "fetch"
  /\ \E response \in SyncResponses :
       LET turn == fetchJsonTurn(response, sRetries, sBackoffMs)
       IN  /\ turn.kind # "retry"
           /\ sOutcome' = [kind |-> turn.kind, error |-> turn.error]
           /\ sResponses' = Append(sResponses, response)
           /\ sLastStatus' = response.status
  /\ spc' = "done"
  /\ UNCHANGED <<outsideSync, sConfigured, sRetries, sBackoffMs, sWaits>>

NextSync == RetryFetchJson \/ FinishFetchJson

InitVenue == InitKalshi \/ InitSync

NextVenue == NextKalshi \/ NextSync

SpecVenue == InitVenue /\ [][NextVenue]_vars

\* C15: once the venue has answered 429 until no retry is left, the call gives
\* the rate limit back as a value and does not throw, in fetchJson of the sync
\* job and in fetchKalshiMarketsForSeries alike.
C15_RateLimitIsAValue ==
  /\ (spc = "done" /\ sLastStatus = 429) => sOutcome.kind = "value"
  /\ \A k \in 1..Len(kVenue) :
       AnswersTooManyRequests(kVenue[k]) => (~kResults[k].threw /\ kResults[k].rateLimited)


(***************************************************************************)
(* The endpoints that ask the LLM, each called once with what the server   *)
(* may meet, and the snapshot the client builds of /api/score-markets      *)
(***************************************************************************)
\* the texts that do not parse, and one that parses to a string
BrokenTexts ==
  {LlmText(FALSE, FALSE, JsonOther("none")),
   LlmText(FALSE, TRUE, JsonOther("none"))}

RankTexts ==
  BrokenTexts \cup
  {LlmText(TRUE, FALSE, JsonOther("none")),
   LlmText(FALSE, FALSE, JsonOther("object")),
   LlmText(FALSE, FALSE, JsonArray(<<>>)),
   LlmText(FALSE, FALSE,
           JsonArray(<<RankItem(FALSE, "KXHURR", NullString, Num(140), "strong",
                                NullString, "storms close the port"),
                       RankItem(FALSE, NullString, "KXOTHER", Num(50), "weak", "fuel", "x"),
                       RankItem(FALSE, NullString, "KXRAIN", NullValue, "certain",
                                "rain", NullString)>>)),
   LlmText(FALSE, FALSE,
           JsonArray(<<RankItem(TRUE, NullString, NullString, NullValue, NullString,
                                NullString, NullString)>>))}

RankBodies ==
  {[profile |-> TRUE, markets |-> <<"KXHURR", "KXRAIN">>],
   [profile |-> TRUE, markets |-> <<>>],
   [profile |-> FALSE, markets |-> <<"KXHURR">>]}

LlmServers(texts) ==
  {ProfileServer(FALSE, "answers", LlmText(FALSE, FALSE, JsonOther("none"))),
   ProfileServer(TRUE, "throws", LlmText(FALSE, FALSE, JsonOther("none")))}
  \cup {ProfileServer(TRUE, "answers", text) : text \in texts}

AnalyzeTexts ==
  BrokenTexts \cup
  {LlmText(TRUE, FALSE, JsonOther("none")),
   LlmText(FALSE, FALSE, JsonOther("array")),
   LlmText(FALSE, FALSE, EmptyObject)}

AnalyzeServers ==
  {[apiKey |-> FALSE, llm |-> "answers", text |-> LlmText(FALSE, FALSE, EmptyObject),
    retry |-> "answers", retryText |-> LlmText(FALSE, FALSE, EmptyObject)]}
  \cup {[apiKey |-> TRUE, llm |-> llm, text |-> text, retry |-> retry,
         retryText |-> retryText] :
          llm \in {"answers", "throws"}, text \in AnalyzeTexts,
          retry \in {"answers", "throws"}, retryText \in AnalyzeTexts}

\* the items the LLM may score a market with
ScoreItems ==
  {ScoreItem(TRUE, "KXA", NullString, "Gas above $4", Points(9), Points(3), Points(3),
             Points(10)),
   ScoreItem(TRUE, "KXA", NullString, "Gas above $4", Points(9), Points(3), Points(3),
             Absent),
   ScoreItem(TRUE, "KXB", NullString, "Rain in May", Numeral(12), JsonTrue, OtherValue,
             Numeral(7)),
   ScoreItem(TRUE, NullString, "KXB-26", "Rain in May", Points(6), Points(6), NullValue,
             Points(4)),
   ScoreItem(TRUE, "KXC", NullString, "Corn", Points(5), Points(5), Points(5), Points(5)),
   ScoreItem(TRUE, "KXB", NullString, NullString, Points(10), Points(10), Points(10),
             Points(0 - 2)),
   ScoreItem(FALSE, NullString, NullString, NullString, Absent, Absent, Absent, Absent)}

ScoreTexts ==
  BrokenTexts \cup
  {LlmText(TRUE, FALSE, JsonOther("none")),
   LlmText(FALSE, FALSE, JsonOther("array")),
   LlmText(FALSE, FALSE, JsonScores(NotAnArray))}
  \cup {LlmText(FALSE, FALSE, JsonScores(ArrayOf(<<first, second>>))) :
          first \in ScoreItems, second \in ScoreItems}

ScoreRows ==
  <<MarketRow("KXB", "Rain in May", "KXB-26", Num(40)),
    MarketRow("KXA", "Gas above $4", NullString, NullValue)>>

ScoreServer(apiKey, llm, keywordText, keywords, fallbackKeywords, markets, scoring, text) ==
  [apiKey |-> apiKey, llm |-> llm, keywordText |-> keywordText, keywords |-> keywords,
   fallbackKeywords |-> fallbackKeywords, markets |-> markets, scoring |-> scoring,
   text |-> text]

ScoreServers ==
  LET parsing == LlmText(FALSE, FALSE, EmptyObject)
      broken == LlmText(FALSE, FALSE, JsonOther("none"))
      blank == LlmText(TRUE, FALSE, JsonOther("none"))
  IN  {ScoreServer(FALSE, "answers", parsing, <<"gas">>, <<"rain">>, ScoreRows, "answers",
                   broken),
       ScoreServer(TRUE, "throws", parsing, <<"gas">>, <<"rain">>, ScoreRows, "answers",
                   broken),
       ScoreServer(TRUE, "answers", blank, <<"gas">>, <<"rain">>, ScoreRows, "answers",
                   broken),
       ScoreServer(TRUE, "answers", broken, <<"gas">>, <<>>, ScoreRows, "answers", broken),
       ScoreServer(TRUE, "answers", parsing, <<"gas", "rain">>, <<"rain", "corn">>, <<>>,
                   "answers", broken),
       ScoreServer(TRUE, "answers", parsing, <<"gas">>, <<"rain">>, ScoreRows, "throws",
                   broken)}
      \cup {ScoreServer(TRUE, "answers", keywordText, <<"gas">>, <<"rain">>, ScoreRows,
                        "answers", text) :
              keywordText \in {parsing, broken}, text \in ScoreTexts}

InitLlm ==
  /\ QuoteIdle
  /\ RankIdle
  /\ KalshiIdle
  /\ SyncIdle
  /\ AbortIdle
  /\ RateIdle
  /\ FanIdle
  /\ SelectIdle
  /\ CacheIdle
  /\ RunIdle
  /\ PagingIdle
  /\ lEndpoint = ""
  /\ lServer = <<>>
  /\ lBody = <<>>
  /\ lReply = <<>>
  /\ lSnapshot = <<>>
  /\ lpc = "call"

\* POST /api/profile
PostProfile ==
  /\ lpc = "call"
  /\ \E server \in LlmServers(ProfileTexts), text \in {"", "  ", "Citrus grower in Tampa"} :
       /\ lEndpoint' = "/api/profile"
       /\ lServer' = server
       /\ lBody' = [input |-> text]
       /\ lReply' = profileEndpoint(server, [input |-> text])
  /\ lpc' = "answered"
  /\ UNCHANGED <<lSnapshot, outsideLlm>>

\* POST /api/rank-markets
PostRankMarkets ==
  /\ lpc = "call"
  /\ \E server \in LlmServers(RankTexts), body \in RankBodies :
       /\ lEndpoint' = "/api/rank-markets"
       /\ lServer' = server
       /\ lBody' = body
       /\ lReply' = rankMarketsEndpoint(server, body)
  /\ lpc' = "answered"
  /\ UNCHANGED <<lSnapshot, outsideLlm>>

\* POST /api/analyze
PostAnalyze ==
  /\ lpc = "call"
  /\ \E server \in AnalyzeServers, text \in {" ", "Citrus grower in Tampa"} :
       /\ lEndpoint' = "/api/analyze"
       /\ lServer' = server
       /\ lBody' = [business |-> text]
       /\ lReply' = analyzeEndpoint(server, [business |-> text])
  /\ lpc' = "answered"
  /\ UNCHANGED <<lSnapshot, outsideLlm>>

\* POST /api/score-markets, sent by runHedgiSnapshot with the trimmed input
PostScoreMarkets ==
  /\ lpc = "call"
  /\ \E server \in ScoreServers, text \in {"", "Citrus grower in Tampa"} :
       /\ lEndpoint' = "/api/score-markets"
       /\ lServer' = server
       /\ lBody' = [businessDescription |-> text]
       /\ lReply' = scoreMarketsEndpoint(server, [businessDescription |-> text])
  /\ lpc' = "answered"
  /\ UNCHANGED <<lSnapshot, outsideLlm>>

\* runHedgiSnapshot after the answer: postJson throws when the answer is no 2xx
RunHedgiSnapshot ==
  /\ lpc = "answered"
  /\ lEndpoint = "/api/score-markets"
  /\ IF responseOk(lReply)
       THEN /\ lSnapshot' = snapshotScoredMarkets(lReply.body)
            /\ lpc' = "snapshot"
       ELSE /\ lSnapshot' = <<>>
            /\ lpc' = "rejected"
  /\ UNCHANGED <<lEndpoint, lServer, lBody, lReply, outsideLlm>>

NextLlm ==
  \/ PostProfile
  \/ PostRankMarkets
  \/ PostAnalyze
  \/ PostScoreMarkets
  \/ RunHedgiSnapshot

SpecLlm == InitLlm /\ [][NextLlm]_vars

\* the LLM answered the parsing step of the call with a text of which no JSON
\* value can be recovered
ReachedParsing ==
  /\ lpc \in {"answered", "snapshot", "rejected"}
  /\ lServer.apiKey
  /\ lServer.llm = "answers"
  /\ ~lServer.text.blank
  /\ CASE lEndpoint = "/api/profile" -> trim(lBody.input) # ""
       [] lEndpoint = "/api/rank-markets" -> lBody.profile /\ lBody.markets # <<>>
       [] lEndpoint = "/api/analyze" -> trim(lBody.business) # ""
       [] OTHER -> /\ trim(lBody.businessDescription) # ""
                   /\ ~lServer.keywordText.blank
                   /\ lServer.markets # <<>>
                   /\ lServer.scoring = "answers"

UnrecoverableOutput ==
  /\ ReachedParsing
  /\ lServer.text.json.t = "none"
  /\ lEndpoint = "/api/analyze" =>
       lServer.retry = "answers" /\ lServer.retryText.json.t = "none"

\* C16: when no JSON can be recovered of the output of the LLM, each of the
\* endpoints /api/profile, /api/rank-markets, /api/score-markets and
\* /api/analyze answers 502 with the error invalid_json, never a success
C16_UnrecoverableOutputIsInvalidJson ==
  UnrecoverableOutput => (lReply.status = 502 /\ lReply.error = "invalid_json")

\* the scores of a market are in [0,10] and the overall score is the mean of the
\* three others
ScoresValid(market) ==
  /\ \A score \in {market.relevance_score, market.hedging_utility_score,
                   market.timing_score, market.overall_score} :
       0 <= score /\ score <= 10 * ScoreUnit
  /\ 3 * market.overall_score =
       market.relevance_score + market.hedging_utility_score + market.timing_score

\* C17: every scored market that sanitizeScores returns and every scored market
\* of the snapshot has its four scores in [0,10] and an overall score that is
\* the mean of the three others, whatever overall score the LLM wrote
C17_OverallIsMeanOfSubScores ==
  /\ (lEndpoint = "/api/score-markets" /\ lpc \in {"answered", "snapshot"}
      /\ responseOk(lReply)) =>
       \A i \in 1..Len(lReply.body.scored_markets) :
         ScoresValid(lReply.body.scored_markets[i])
  /\ lpc = "snapshot" => \A i \in 1..Len(lSnapshot) : ScoresValid(lSnapshot[i])


(***************************************************************************)
(* A Results page from its mounting to the end of its request, with the    *)
(* unmounting of the page at any point                                     *)
(***************************************************************************)
StoredBusinesses == {"", "Citrus grower in Tampa", "Ski resort in Colorado"}

ApiResponses ==
  {ApiResponse(200, "", "", TRUE),
   ApiResponse(200, "", "", FALSE),
   ApiResponse(502, "invalid_json", "", TRUE),
   ApiResponse(500, "missing_api_key", "", TRUE),
   ApiResponse(500, "server_error", "fetch failed", TRUE),
   ApiResponse(404, "", "", FALSE)}

InitAbort ==
  /\ QuoteIdle
  /\ RankIdle
  /\ KalshiIdle
  /\ SyncIdle
  /\ LlmIdle
  /\ RateIdle
  /\ FanIdle
  /\ SelectIdle
  /\ CacheIdle
  /\ RunIdle
  /\ PagingIdle
  /\ aPage = ""
  /\ aBusiness = ""
  /\ apc = "unmounted"
  /\ aResponse = NoResponse
  /\ aMounted = FALSE
  /\ aAborted = FALSE
  /\ aCancelled = FALSE
  /\ aState = PageState("", TRUE, "")
  /\ aLeft = NotLeft

\* the effect of Results.tsx, lines 156-165 and 204-206
MountAnalysis ==
  /\ apc = "unmounted"
  /\ aPage = ""
  /\ \E storedBusiness \in StoredBusinesses :
       /\ aBusiness' = storedBusiness
       /\ IF storedBusiness = ""
            THEN apc' = "navigated" /\ UNCHANGED aState
            ELSE apc' = "fetch" /\ aState' = [aState EXCEPT !.error = "", !.isLoading = TRUE]
  /\ aPage' = "Results.tsx"
  /\ aMounted' = TRUE
  /\ UNCHANGED <<aResponse, aAborted, aCancelled, aLeft, outsideAbort>>

\* the effect of part_002, lines 50-85
MountSnapshot ==
  /\ apc = "unmounted"
  /\ aPage = ""
  /\ \E storedSnapshot \in BOOLEAN, storedBusiness \in StoredBusinesses :
       /\ aBusiness' = storedBusiness
       /\ IF storedSnapshot
            THEN /\ apc' = "shown"
                 /\ aState' = [aState EXCEPT !.result = "snapshot", !.isLoading = FALSE]
            ELSE IF storedBusiness = ""
              THEN apc' = "navigated" /\ UNCHANGED aState
              ELSE /\ apc' = "fetch"
                   /\ aState' = [aState EXCEPT !.error = "", !.isLoading = TRUE]
  /\ aPage' = "part_002"
  /\ aMounted' = TRUE
  /\ UNCHANGED <<aResponse, aAborted, aCancelled, aLeft, outsideAbort>>

\* the page is unmounted: React runs the cleanup the effect returned.  That of
\* Results.tsx aborts the controller, line 206, which cancels the call in
\* flight; the effect of part_002 returns none.
Unmount ==
  /\ aMounted
  /\ aMounted' = FALSE
  /\ aLeft' = [inFlight |-> apc \in {"fetch", "body"}, state |-> aState]
  /\ IF aPage = "Results.tsx" /\ apc # "navigated"
       THEN aAborted' = TRUE /\ aCancelled' = (apc \in {"fetch", "body"})
       ELSE UNCHANGED <<aAborted, aCancelled>>
  /\ UNCHANGED <<aPage, aBusiness, apc, aResponse, aState, outsideAbort>>

\* fetch resolves with a response; a fetch whose signal is aborted does not
FetchResolves ==
  /\ apc = "fetch"
  /\ ~aAborted
  /\ \E response \in ApiResponses : aResponse' = response
  /\ apc' = "body"
  /\ UNCHANGED <<aPage, aBusiness, aMounted, aAborted, aCancelled, aState, aLeft,
                 outsideAbort>>

\* fetch rejects: the network fails, or the signal is aborted
FetchRejects ==
  /\ apc = "fetch"
  /\ aState' = IF aPage = "Results.tsx"
                 THEN runAnalysisEnd(aState, aAborted, "rejected", aResponse)
                 ELSE runSnapshotEnd(aState, "rejected", aResponse)
  /\ apc' = "settled"
  /\ UNCHANGED <<aPage, aBusiness, aResponse, aMounted, aAborted, aCancelled, aLeft,
                 outsideAbort>>

\* response.json() settles: it rejects when the signal is aborted or the body
\* is no JSON, and resolves otherwise
BodySettles ==
  /\ apc = "body"
  /\ LET outcome == IF aAborted \/ ~aResponse.json THEN "unreadable" ELSE "read"
     IN  aState' = IF aPage = "Results.tsx"
                     THEN runAnalysisEnd(aState, aAborted, outcome, aResponse)
                     ELSE runSnapshotEnd(aState, outcome, aResponse)
  /\ apc' = "settled"
  /\ UNCHANGED <<aPage, aBusiness, aResponse, aMounted, aAborted, aCancelled, aLeft,
                 outsideAbort>>

NextAbort ==
  \/ MountAnalysis
  \/ MountSnapshot
  \/ Unmount
  \/ FetchResolves
  \/ FetchRejects
  \/ BodySettles

SpecAbort == InitAbort /\ [][NextAbort]_vars

\* C18: when a Results page is unmounted while the network call of its request
\* is in flight, the call is cancelled through the abort signal and the request
\* updates nothing afterwards: error, isLoading and the result stay as they were
C18_AbortedRequestIsSilent ==
  aLeft.inFlight => (aCancelled /\ aState = aLeft.state)


(***************************************************************************)
(* Claims about inferCategoriesFromProfile                                 *)
(***************************************************************************)
\* the keywords of a category that a candidate keyword of the profile contains
\* or is contained in
HitKeywords(category) ==
  {keyword \in Range(category.keywords) :
     \E candidate \in baseKeywords(profile) :
       includes(candidate, keyword) \/ includes(keyword, candidate)}

IndustryHit(category) ==
  /\ profile.industry \notin {NullString, ""}
  /\ \E keyword \in HitKeywords(category) :
       \/ includes(normalize(profile.industry), keyword)
       \/ includes(keyword, normalize(profile.industry))

Hits(category) ==
  Cardinality(HitKeywords(category)) + (IF IndustryHit(category) THEN 1 ELSE 0)

RegionBoosted(category) ==
  profile.region \notin {NullString, ""} /\ category.defaultRegionBehavior # "national"

\* d times 0.15 + 0.75 * hits / d + regionBoost, in millionths, d being
\* clamp(keywordCount, 4, 8)
ConfidenceTimesClamp(category) ==
  LET d == Max(4, Min(8, Len(category.keywords)))
  IN  150000 * d + 750000 * Hits(category)
        + (IF RegionBoosted(category) THEN 50000 * d ELSE 0)

\* a confidence is the value of the formula, capped at 1, to the millionth
ConfidenceAsStated(match, category) ==
  LET d == Max(4, Min(8, Len(category.keywords)))
  IN  IF ConfidenceTimesClamp(category) >= Micro * d
        THEN match.confidence = Micro
        ELSE /\ match.confidence * d - ConfidenceTimesClamp(category) <= d
             /\ ConfidenceTimesClamp(category) - match.confidence * d <= d

\* C19: inferCategoriesFromProfile returns exactly the categories with at least
\* one hit, each once, with the confidence min(1, 0.15 + 0.75 * hitCount /
\* clamp(keywordCount, 4, 8) + regionBoost), the boost being 0.05 iff the profile
\* has a region and the category is not national; every confidence is in
\* (0.15, 1] and the list is in non-increasing order of confidence
C19_CategoriesAndConfidence ==
  pc = "kalshi" =>
    /\ {categoryMatches[i].id : i \in 1..Len(categoryMatches)}
         = {category.id : category \in {c \in Range(CATEGORY_DEFINITIONS) : Hits(c) >= 1}}
    /\ \A i, j \in 1..Len(categoryMatches) :
         categoryMatches[i].id = categoryMatches[j].id => i = j
    /\ \A i \in 1..Len(categoryMatches) :
         /\ \E category \in Range(CATEGORY_DEFINITIONS) :
              /\ category.id = categoryMatches[i].id
              /\ ConfidenceAsStated(categoryMatches[i], category)
         /\ categoryMatches[i].confidence > 150000
         /\ categoryMatches[i].confidence <= Micro
    /\ \A i \in 1..(Len(categoryMatches) - 1) :
         categoryMatches[i].confidence >= categoryMatches[i + 1].confidence

\* a hotel in Texas that buys fuel: tourism with the hit of the industry and the
\* boost of the region, energy, a national category, with neither
C19_Witness ==
  /\ pc = "kalshi"
  /\ profile.region = "US-South"
  /\ profile.industry = "tourism"
  /\ Len(categoryMatches) >= 2
  /\ categoryMatches[1] = [id |-> "tourism", confidence |-> 481250]
  /\ \E i \in 2..Len(categoryMatches) :
       categoryMatches[i] = [id |-> "energy", confidence |-> 337500]


(***************************************************************************)
(* Claims about the keywords of a profile                                  *)
(***************************************************************************)
\* a character a token is made of
IsTokenChar(c) == IsLowerAlnum(c) \/ c = "-"

\* the tokens of a text that count, in lower case, as a function of the places
\* where they start: a token is a longest run of token characters of the text
\* in lower case, and counts when it is longer than 2 characters and no
\* stop-word
CountedTokens(text) ==
  LET n == Len(text)
      tokenChar == [i \in 1..n |-> IsTokenChar(toLowerCaseChar(CharAt(text, i)))]
      starts == {i \in 1..n : tokenChar[i] /\ (i = 1 \/ ~tokenChar[i - 1])}
      ends == {j \in 1..n : tokenChar[j] /\ (j = n \/ ~tokenChar[j + 1])}
      tokenFrom == [i \in starts |->
                      toLowerCase(SubSeq(text, i,
                                         CHOOSE j \in ends :
                                           j >= i /\ \A k \in ends : k >= i => j <= k))]
      counted == {i \in starts : Len(tokenFrom[i]) > 2 /\ tokenFrom[i] \notin STOPWORDS}
  IN  [i \in counted |-> tokenFrom[i]]

\* the keywords are the first 20 distinct tokens that count, in the order they
\* are first seen
FirstDistinctTokens(keywords, tokens) ==
  LET firstSeen == [k \in 1..Len(keywords) |->
                      CHOOSE i \in DOMAIN tokens :
                        /\ tokens[i] = keywords[k]
                        /\ \A j \in DOMAIN tokens : tokens[j] = keywords[k] => i <= j]
  IN  /\ \A k \in 1..Len(keywords) : \E i \in DOMAIN tokens : tokens[i] = keywords[k]
      /\ \A k \in 1..(Len(keywords) - 1) : firstSeen[k] < firstSeen[k + 1]
      /\ \A i \in DOMAIN tokens :
           \/ tokens[i] \in Range(keywords)
           \/ Len(keywords) = 20 /\ i > firstSeen[20]

\* C20: the keywords of a profile, rule-based or merged with the answer of the
\* LLM, have no duplicates, are at most 20, are tokens in lower case longer than
\* 2 characters that are no stop-words, and are the first 20 distinct such
\* tokens of the input in the order they are first seen
C20_KeywordsAreFirstDistinctTokens ==
  pc = "kalshi" =>
    /\ Len(profile.keywords) <= 20
    /\ \A i, j \in 1..Len(profile.keywords) :
         profile.keywords[i] = profile.keywords[j] => i = j
    /\ \A i \in 1..Len(profile.keywords) :
         /\ Len(profile.keywords[i]) > 2
         /\ profile.keywords[i] \notin STOPWORDS
         /\ \A k \in 1..Len(profile.keywords[i]) :
              IsTokenChar(CharAt(profile.keywords[i], k))
    /\ FirstDistinctTokens(profile.keywords, CountedTokens(input))

\* an input of 24 distinct tokens that count, one of them three times, with a
\* stop-word: the profile merged with the answer of the LLM keeps the first 20
C20_Witness ==
  /\ pc = "kalshi"
  /\ profileCall.network
  /\ responseOk(profileEndpoint(profileCall.server, [input |-> input]))
  /\ profile.industry = "Logistics"
  /\ Len(profile.keywords) = 20
  /\ profile.keywords[1] = "rye"
  /\ profile.keywords[2] = "bun"
  /\ profile.keywords[20] = "jar"
  /\ LET tokens == CountedTokens(input)
     IN  /\ Cardinality({tokens[i] : i \in DOMAIN tokens}) > 20
         /\ Cardinality(DOMAIN tokens) > Cardinality({tokens[i] : i \in DOMAIN tokens})

(***************************************************************************)
(* The rate queue of the sync job, src/backend/sync.js lines 50-76: the    *)
(* three calls of syncCategory ask fetchWithTimeout for one request at a   *)
(* time each, a request after the one before it was answered.  The clock   *)
(* never goes back and a timer fires when it is due or later.              *)
(***************************************************************************)
\* KALSHI_CATEGORIES, line 11: one call of syncCategory for each
SyncCallers == 1..3

\* the values KALSHI_RPS is set to
ConfiguredRps == {1, 3, 5}

\* the requests of one run that are followed
MaxRequests == 4

\* the first reading of the clock, the time that is followed, and the steps of
\* the clock
RateClockStart == 5000
RateHorizon == 1200
RateClockSteps == {400}

Released(caller, at) == [caller |-> caller, at |-> at]

InitRate ==
  /\ QuoteIdle
  /\ RankIdle
  /\ KalshiIdle
  /\ SyncIdle
  /\ LlmIdle
  /\ AbortIdle
  /\ FanIdle
  /\ SelectIdle
  /\ CacheIdle
  /\ RunIdle
  /\ PagingIdle
  /\ tRps \in ConfiguredRps
  /\ tClock = RateClockStart
  /\ tChain = <<>>
  /\ tSleeping = FALSE
  /\ tDue = 0
  /\ lastRequestAt = 0
  /\ tCaller = [c \in SyncCallers |-> "free"]
  /\ tInvoked = <<>>
  /\ tReleased = <<>>

\* lines 54-64 and 67: a caller calls scheduleRequest and awaits the promise;
\* its task is put at the end of the chain
ScheduleRequest(c) ==
  /\ tCaller[c] = "free"
  /\ Len(tInvoked) < MaxRequests
  /\ tChain' = Append(tChain, c)
  /\ tInvoked' = Append(tInvoked, c)
  /\ tCaller' = [tCaller EXCEPT ![c] = "waiting"]
  /\ UNCHANGED <<outsideRate, tRps, tClock, tSleeping, tDue, lastRequestAt, tReleased>>

\* lines 56-61: the first task of the chain runs.  It sleeps when the interval
\* since lastRequestAt is not over; otherwise it sets lastRequestAt and its
\* caller goes on to fetch
StartTask ==
  /\ tChain # <<>>
  /\ ~tSleeping
  /\ LET waitMs == scheduleWaitMs(lastRequestAt, tRps, tClock)
     IN  IF waitMs > 0
           THEN /\ tSleeping' = TRUE
                /\ tDue' = tClock + waitMs
                /\ UNCHANGED <<tChain, lastRequestAt, tCaller, tReleased>>
           ELSE /\ lastRequestAt' = tClock
                /\ tReleased' = Append(tReleased, Released(Head(tChain), tClock))
                /\ tCaller' = [tCaller EXCEPT ![Head(tChain)] = "fetching"]
                /\ tChain' = Tail(tChain)
                /\ UNCHANGED <<tSleeping, tDue>>
  /\ UNCHANGED <<outsideRate, tRps, tClock, tInvoked>>

\* lines 59-61: the timer of sleep fires; the task sets lastRequestAt and its
\* caller goes on to fetch
WakeTask ==
  /\ tSleeping
  /\ tClock >= tDue
  /\ tSleeping' = FALSE
  /\ lastRequestAt' = tClock
  /\ tReleased' = Append(tReleased, Released(Head(tChain), tClock))
  /\ tCaller' = [tCaller EXCEPT ![Head(tChain)] = "fetching"]
  /\ tChain' = Tail(tChain)
  /\ UNCHANGED <<outsideRate, tRps, tClock, tDue, tInvoked>>

\* lines 68-75: the request of a caller is answered, or fails; the caller may
\* then ask for its next request, a retry or the next page
RequestSettles(c) ==
  /\ tCaller[c] = "fetching"
  /\ tCaller' = [tCaller EXCEPT ![c] = "free"]
  /\ UNCHANGED <<outsideRate, tRps, tClock, tChain, tSleeping, tDue, lastRequestAt,
                 tInvoked, tReleased>>

\* time passes: by a step, or up to the time the timer is due
ClockAdvances ==
  /\ \E next \in {tClock + d : d \in RateClockSteps} \cup (IF tSleeping THEN {tDue} ELSE {}) :
       /\ next > tClock
       /\ next <= RateClockStart + RateHorizon
       /\ tClock' = next
  /\ UNCHANGED <<outsideRate, tRps, tChain, tSleeping, tDue, lastRequestAt, tCaller,
                 tInvoked, tReleased>>

NextRate ==
  \/ \E c \in SyncCallers : ScheduleRequest(c)
  \/ StartTask
  \/ WakeTask
  \/ \E c \in SyncCallers : RequestSettles(c)
  \/ ClockAdvances

SpecRate == InitRate /\ [][NextRate]_vars

\* the requests are released in the order scheduleRequest was called
ReleasedInOrder ==
  /\ Len(tReleased) <= Len(tInvoked)
  /\ \A i \in 1..Len(tReleased) : tReleased[i].caller = tInvoked[i]

\* two requests released one after the other are MIN_INTERVAL_MS apart or more,
\* and lastRequestAt is the time of the last release
ReleasedApart ==
  /\ \A i \in 1..(Len(tReleased) - 1) :
       tReleased[i + 1].at - tReleased[i].at >= MIN_INTERVAL_MS(tRps)
  /\ tReleased # <<>> => lastRequestAt = tReleased[Len(tReleased)].at

\* lastRequestAt never decreases
LastRequestAtNeverDecreases == [][lastRequestAt' >= lastRequestAt]_vars

\* the requests released in the second that begins with the i-th release
ReleasedInSecondFrom(i) ==
  {j \in 1..Len(tReleased) :
     tReleased[j].at >= tReleased[i].at /\ tReleased[j].at < tReleased[i].at + 1000}

\* no second holds more releases than the configured requests per second
WithinConfiguredRate ==
  \A i \in 1..Len(tReleased) : Cardinality(ReleasedInSecondFrom(i)) <= tRps

\* C21: with any number of callers asking for requests together, scheduleRequest
\* releases the requests one at a time in the order it was called, any two
\* requests released one after the other are at least MIN_INTERVAL_MS apart, and
\* no more than the configured requests per second are started.
C21_ReleasedInOrderWithinRate ==
  /\ ReleasedInOrder
  /\ ReleasedApart
  /\ WithinConfiguredRate

\* the wait the header Retry-After asks for, in milliseconds, when the header is
\* a positive number of seconds or a date in the future; 0 when it is neither
RetryAfterAsked(response) ==
  IF response.retryAfter.k \in {"seconds", "date"} /\ response.retryAfter.v > 0
    THEN response.retryAfter.v * 1000 ELSE 0

RECURSIVE TwoToThe(_)
TwoToThe(n) == IF n = 0 THEN 1 ELSE 2 * TwoToThe(n - 1)

\* the requests the call has made
RequestsMade == Len(sResponses)

\* C22: fetchJson retries only on HTTP 429 and at most MAX_RETRIES times, so it
\* makes at most MAX_RETRIES + 1 requests whatever the responses; before the
\* n-th retry it waits what Retry-After asks for when the header is a positive
\* number of seconds or a date in the future, and otherwise
\* min(BACKOFF_MS * 2^(n-1), 15000) ms.
C22_RetriesAndWaits ==
  /\ Len(sWaits) <= sConfigured.retries
  /\ RequestsMade <= sConfigured.retries + 1
  /\ \A n \in 1..Len(sWaits) :
       /\ sResponses[n].status = 429
       /\ sWaits[n] = IF RetryAfterAsked(sResponses[n]) > 0
                        THEN RetryAfterAsked(sResponses[n])
                        ELSE Min(sConfigured.backoffMs * TwoToThe(n - 1), 15000)

(***************************************************************************)
(* The fetches of the venue adapters in buildRankedSignals, in the version *)
(* of src/unnamed/part_004 lines 248-259 (Promise.all) and in the version  *)
(* of src/unnamed/part_005 lines 358-376 (one await after the other).  A   *)
(* fetch is invoked, is pending, and completes; the fetches that are       *)
(* pending complete in any order.                                          *)
(***************************************************************************)
\* a market of the live Kalshi adapter with the title of a market of Polymarket
GulfLandfallOnKalshi ==
  [id |-> "KXGULF-26", source |-> "kalshi",
   title |-> "Will a major Hurricane make Gulf Coast landfall in 2026",
   categoryId |-> "weather", closeTime |-> "2026-11-20T00:00:00Z", liquidity |-> Num(30000)]

\* what the live adapter answers; <<>> also stands for its failure, line 367
FanKalshiAnswers ==
  {<<>>, <<GulfLandfallOnKalshi>>, <<GulfLandfallOnKalshi, kalshiMockMarkets[1]>>,
   <<[GulfLandfallOnKalshi EXCEPT !.liquidity = Num(100)]>>}

FanCategories == {<<>>, <<"weather">>, <<"agriculture", "weather", "energy">>}

InitFan ==
  /\ QuoteIdle
  /\ RankIdle
  /\ KalshiIdle
  /\ SyncIdle
  /\ LlmIdle
  /\ AbortIdle
  /\ RateIdle
  /\ SelectIdle
  /\ CacheIdle
  /\ RunIdle
  /\ PagingIdle
  /\ fVersion \in {"part_004", "part_005"}
  /\ fUseRealKalshi \in BOOLEAN
  /\ fVersion = "part_004" => ~fUseRealKalshi
  /\ fCategories \in FanCategories
  /\ fKalshi = NotInvoked
  /\ fPolymarket = NotInvoked
  /\ fStandIn = NotInvoked
  /\ fKalshiAtPolymarketStart = ""
  /\ fCompleted = <<>>
  /\ fCandidates = <<>>
  /\ fFiltered = <<>>
  /\ fRanking = FALSE
  /\ fpc = "start"

\* part_004 lines 253-256: both adapters are called, then Promise.all is awaited
InvokeBoth ==
  /\ fpc = "start"
  /\ fVersion = "part_004"
  /\ fKalshi' = Fetch("pending", <<>>)
  /\ fPolymarket' = Fetch("pending", <<>>)
  /\ fKalshiAtPolymarketStart' = "pending"
  /\ fpc' = "awaitAll"
  /\ UNCHANGED <<outsideFan, fVersion, fUseRealKalshi, fCategories, fStandIn, fCompleted,
                 fCandidates, fFiltered, fRanking>>

\* part_005 lines 366-368: the Kalshi adapter is called and awaited
InvokeKalshi ==
  /\ fpc = "start"
  /\ fVersion = "part_005"
  /\ fKalshi' = Fetch("pending", <<>>)
  /\ fpc' = "awaitKalshi"
  /\ UNCHANGED <<outsideFan, fVersion, fUseRealKalshi, fCategories, fPolymarket, fStandIn,
                 fKalshiAtPolymarketStart, fCompleted, fCandidates, fFiltered, fRanking>>

\* the fetch of the Kalshi adapter completes: the live adapter answers or fails,
\* the mock gives its markets of the categories
KalshiCompletes ==
  /\ fKalshi.status = "pending"
  /\ \E answer \in FanKalshiAnswers :
       fKalshi' = Fetch("done",
                        IF fUseRealKalshi THEN answer
                        ELSE fetchActiveMarketsByCategories(kalshiMockMarkets, fCategories))
  /\ fCompleted' = Append(fCompleted, "kalshi")
  /\ UNCHANGED <<outsideFan, fVersion, fUseRealKalshi, fCategories, fPolymarket, fStandIn,
                 fKalshiAtPolymarketStart, fCandidates, fFiltered, fRanking, fpc>>

\* part_005 line 369: the Kalshi markets are there; the Polymarket adapter is
\* called and awaited
InvokePolymarket ==
  /\ fpc = "awaitKalshi"
  /\ fKalshi.status = "done"
  /\ fPolymarket' = Fetch("pending", <<>>)
  /\ fKalshiAtPolymarketStart' = fKalshi.status
  /\ fpc' = "awaitPolymarket"
  /\ UNCHANGED <<outsideFan, fVersion, fUseRealKalshi, fCategories, fKalshi, fStandIn,
                 fCompleted, fCandidates, fFiltered, fRanking>>

PolymarketCompletes ==
  /\ fPolymarket.status = "pending"
  /\ fPolymarket' =
       Fetch("done", fetchActiveMarketsByCategories(polymarketMockMarkets, fCategories))
  /\ fCompleted' = Append(fCompleted, "polymarket")
  /\ UNCHANGED <<outsideFan, fVersion, fUseRealKalshi, fCategories, fKalshi, fStandIn,
                 fKalshiAtPolymarketStart, fCandidates, fFiltered, fRanking, fpc>>

\* part_005 lines 371-374: the live adapter gave no market; the mock is called
\* and awaited
InvokeStandIn ==
  /\ fpc = "awaitPolymarket"
  /\ fPolymarket.status = "done"
  /\ fUseRealKalshi /\ Len(fKalshi.markets) = 0
  /\ fStandIn' = Fetch("pending", <<>>)
  /\ fpc' = "awaitStandIn"
  /\ UNCHANGED <<outsideFan, fVersion, fUseRealKalshi, fCategories, fKalshi, fPolymarket,
                 fKalshiAtPolymarketStart, fCompleted, fCandidates, fFiltered, fRanking>>

StandInCompletes ==
  /\ fStandIn.status = "pending"
  /\ fStandIn' = Fetch("done", fetchActiveMarketsByCategories(kalshiMockMarkets, fCategories))
  /\ fCompleted' = Append(fCompleted, "standIn")
  /\ UNCHANGED <<outsideFan, fVersion, fUseRealKalshi, fCategories, fKalshi, fPolymarket,
                 fKalshiAtPolymarketStart, fCandidates, fFiltered, fRanking, fpc>>

\* the Kalshi markets of the run: part_005 lines 371-374, part_004 line 253
fanResolvedKalshiMarkets ==
  IF fStandIn.status = "done" THEN fStandIn.markets ELSE fKalshi.markets

\* the argument of hygieneFilter with the Polymarket markets first
fanCandidateMarketsMutPolymarketFirst == fPolymarket.markets \o fanResolvedKalshiMarkets

\* the argument of hygieneFilter, part_004 line 258 and part_005 line 376
fanCandidateMarkets == fanResolvedKalshiMarkets \o fPolymarket.markets

\* part_004 line 258, part_005 line 376: every awaited fetch is done;
\* hygieneFilter is given the Kalshi markets followed by the Polymarket markets
FilterFetched ==
  /\ \/ fpc = "awaitAll" /\ fKalshi.status = "done" /\ fPolymarket.status = "done"
     \/ /\ fpc = "awaitPolymarket" /\ fPolymarket.status = "done"
        /\ ~(fUseRealKalshi /\ Len(fKalshi.markets) = 0)
     \/ fpc = "awaitStandIn" /\ fStandIn.status = "done"
  /\ fCandidates' = fanCandidateMarkets
  /\ fFiltered' = hygieneFilter(fanCandidateMarkets, ClockStart)
  /\ fpc' = "rank"
  /\ UNCHANGED <<outsideFan, fVersion, fUseRealKalshi, fCategories, fKalshi, fPolymarket,
                 fStandIn, fKalshiAtPolymarketStart, fCompleted, fRanking>>

\* part_005 line 378, part_004 line 260: the request of the ranking of the LLM
\* is sent, or the ranking step starts
StartRanking ==
  /\ fpc = "rank"
  /\ fRanking' = TRUE
  /\ fpc' = "ranking"
  /\ UNCHANGED <<outsideFan, fVersion, fUseRealKalshi, fCategories, fKalshi, fPolymarket,
                 fStandIn, fKalshiAtPolymarketStart, fCompleted, fCandidates, fFiltered>>

NextFan ==
  \/ InvokeBoth
  \/ InvokeKalshi
  \/ KalshiCompletes
  \/ InvokePolymarket
  \/ PolymarketCompletes
  \/ InvokeStandIn
  \/ StandInCompletes
  \/ FilterFetched
  \/ StartRanking

SpecFan == InitFan /\ [][NextFan]_vars

\* C23: in buildRankedSignals both venue adapters are invoked before the result
\* of either is awaited: the Polymarket fetch is started while the Kalshi fetch
\* is still pending.
C23_BothInvokedBeforeEitherAwaited ==
  fPolymarket.status # "notInvoked" => fKalshiAtPolymarketStart = "pending"

FanFiltered == fpc \in {"rank", "ranking"}

\* the market passes the tests of hygieneFilter on its close time and liquidity
FanEligible(market) == passesCloseAndLiquidity(market, ClockStart)

\* C24: whatever the order in which the fetches of the adapters complete, the
\* list given to hygieneFilter is the Kalshi markets followed by the Polymarket
\* markets, so of an eligible Kalshi market and an eligible Polymarket market
\* with the same normalized title the Kalshi one survives; and ranking starts
\* only after the filtered list exists.
C24_KalshiFirstThenFilterThenRank ==
  /\ FanFiltered =>
       /\ fCandidates = fanResolvedKalshiMarkets \o fPolymarket.markets
       /\ \A i \in 1..Len(fanResolvedKalshiMarkets), j \in 1..Len(fPolymarket.markets) :
            LET k == fanResolvedKalshiMarkets[i]
                p == fPolymarket.markets[j]
            IN  (/\ FanEligible(k) /\ FanEligible(p)
                 /\ normalizeTitle(k.title) = normalizeTitle(p.title)) =>
                  /\ p \notin Range(fFiltered)
                  /\ \E n \in 1..Len(fFiltered) :
                       /\ fFiltered[n].source = "kalshi"
                       /\ normalizeTitle(fFiltered[n].title) = normalizeTitle(k.title)
  /\ fRanking => FanFiltered
  /\ ~FanFiltered => (fCandidates = <<>> /\ fFiltered = <<>>)

\* both adapters gave an eligible market of the same normalized title, and
\* ranking has started on the list with the Kalshi one
C24_Witness ==
  /\ fRanking
  /\ \E i \in 1..Len(fKalshi.markets), j \in 1..Len(fPolymarket.markets) :
       /\ FanEligible(fKalshi.markets[i]) /\ FanEligible(fPolymarket.markets[j])
       /\ normalizeTitle(fKalshi.markets[i].title) = normalizeTitle(fPolymarket.markets[j].title)
       /\ fKalshi.markets[i] \in Range(fFiltered)
       /\ fPolymarket.markets[j] \notin Range(fFiltered)

(***************************************************************************)
(* The calls of selectSeriesForHedgiCategories, as the handlers of         *)
(* src/unnamed/part_008 lines 690-694 and 863-867 make them: with the tags *)
(* of getTagsForCategories                                                 *)
(***************************************************************************)
Series(ticker, title, category) == [ticker |-> ticker, title |-> title, category |-> category]

ClimateSeries ==
  <<Series("KXHURR", "Hurricane landfalls", "Climate and Weather"),
    Series("KXCO2", "Carbon level", "Climate and Weather"),
    Series("KXRAINNYC", "Rain in NYC", "climate and weather "),
    Series("KXCROP", "Crop yield", "Climate and Weather"),
    Series("KXSNOW", "Snow totals", "Climate and Weather"),
    Series("KXHEAT", "Heat wave", "Climate and Weather"),
    Series("KXFLOOD", "Flood alerts", "Climate and Weather")>>

EconomicsSeries ==
  <<Series("KXOIL", "Oil price", "Economics"),
    Series("KXCPI", "CPI rate", "Economics"),
    Series("KXGAS", "Gas price", "Economics"),
    Series("KXGDP", "GDP growth", "Economics"),
    Series("KXFED", "Fed decision", "Economics"),
    Series("KXPORT", "Port volume", "Economics"),
    Series("KXJOBS", "Payrolls", "Economics")>>

CompaniesSeries ==
  <<Series("KXHOTEL", "Hotel nights", "Companies"),
    Series("KXAIR", "Airline seats", "Companies"),
    Series("KXTSLA", "Deliveries", "Companies"),
    Series("KXNFLX", "Subscribers", "Companies"),
    Series("KXFLU", "Flu cases", "Companies"),
    Series("KXCRUISE", "Vacation sales", "Companies"),
    Series("KXAAPL", "Revenue", "Companies")>>

\* a series without a ticker, one without a category, and one listed twice
OddSeries ==
  <<Series("", "Rain in Miami", "Climate and Weather"),
    Series("KXSTORM", "Storm count", ""),
    Series("KXHURR", "Hurricane landfalls", "Climate and Weather")>>

\* the series of one category of the venue that a list holds
MaxSeriesOfCategory == 7
SeriesCounts == {0, 2, MaxSeriesOfCategory - 1, MaxSeriesOfCategory}

reverseSeq(seq) == [i \in 1..Len(seq) |-> seq[Len(seq) + 1 - i]]

SeriesLists ==
  LET forward ==
        {sliceTo(ClimateSeries, a) \o sliceTo(EconomicsSeries, b) \o sliceTo(CompaniesSeries, c)
           \o odd :
           a \in SeriesCounts, b \in SeriesCounts, c \in {0, MaxSeriesOfCategory - 1},
           odd \in {<<>>, OddSeries}}
  IN  forward \cup {reverseSeq(list) : list \in forward}

RequestedCategories ==
  {<<>>, <<"weather">>, <<"agriculture", "weather">>, <<"weather", "energy", "tourism">>,
   <<"finance", "energy", "logistics">>, <<"health">>, <<"weather", "weather">>,
   <<"sports", "tourism">>, <<"toString", "tourism">>, <<"weather", "constructor">>}

InitSelect ==
  /\ QuoteIdle
  /\ RankIdle
  /\ KalshiIdle
  /\ SyncIdle
  /\ LlmIdle
  /\ AbortIdle
  /\ RateIdle
  /\ FanIdle
  /\ CacheIdle
  /\ RunIdle
  /\ PagingIdle
  /\ selCategories \in RequestedCategories
  /\ selSeriesList \in SeriesLists
  /\ selResult = <<>>
  /\ selpc = "call"

\* part_008 lines 863-867: the selection is made with the tags of the categories
CallSelectSeries ==
  /\ selpc = "call"
  /\ selResult' = selectSeriesForHedgiCategories(selCategories, selSeriesList,
                                                 tagsByCategoryOf(selCategories))
  /\ selpc' = "returned"
  /\ UNCHANGED <<outsideSelect, selCategories, selSeriesList>>

NextSelect == CallSelectSeries

SpecSelect == InitSelect /\ [][NextSelect]_vars

\* the score the plan of a category gives a series: 3 for its tags, 2 more for
\* a keyword in the title; 0 when the series is no candidate of the category
ScoreFor(category, series) ==
  LET plan == KALSHI_CATEGORY_PLANS[category]
  IN  IF series.ticker = "" THEN 0
      ELSE IF plan.seriesCategory # NullString
              /\ toLowerCase(trim(series.category)) # toLowerCase(plan.seriesCategory)
        THEN 0
      ELSE (IF plan.tags # <<>> THEN 3 ELSE 0)
             + (IF \E k \in 1..Len(plan.titleKeywords) :
                     includes(toLowerCase(series.title), plan.titleKeywords[k])
                  THEN 2 ELSE 0)

\* the candidates of a category: the tickers of the list with a score above 0
CandidateTickers(category) ==
  IF category \notin DOMAIN KALSHI_CATEGORY_PLANS THEN {}
  ELSE {selSeriesList[i].ticker : i \in {j \in 1..Len(selSeriesList) :
                                           ScoreFor(category, selSeriesList[j]) > 0}}

ScoreOfTicker(category, ticker) ==
  LET i == CHOOSE j \in 1..Len(selSeriesList) : selSeriesList[j].ticker = ticker
  IN  ScoreFor(category, selSeriesList[i])

\* x is before y by score descending, then ticker ascending
Before(scoreX, tickerX, scoreY, tickerY) ==
  scoreX > scoreY \/ (scoreX = scoreY /\ tickerX # tickerY /\ LexicalLeq(tickerX, tickerY))

\* the top 5 of the candidates of a category
TopOfCategory(category) ==
  LET candidates == CandidateTickers(category)
  IN  {t \in candidates :
         Cardinality({u \in candidates :
                        Before(ScoreOfTicker(category, u), u, ScoreOfTicker(category, t), t)})
           < 5}

\* the selected series a requested category contributed
ContributedBy(category) ==
  {t \in Range(selResult.tickers) : selResult.categoryMap[t] = category}

\* C25: for every list of requested categories and every list of series,
\* selectSeriesForHedgiCategories returns a selection without a ticker twice,
\* with at most 5 series contributed by a requested category, each among the top
\* 5 of the candidates of the category by score descending then ticker
\* ascending, with at most 10 series in all, in the order of score descending
\* then ticker ascending; and capped is true whenever a candidate was left out
\* by one of the two caps.
C25_SelectionCapsAndOrder ==
  selpc = "returned" =>
    /\ ~selResult.threw
    /\ \A i, j \in 1..Len(selResult.tickers) :
         i # j => selResult.tickers[i] # selResult.tickers[j]
    /\ \A c \in Range(selCategories) :
         /\ Cardinality(ContributedBy(c)) <= 5
         /\ ContributedBy(c) \subseteq TopOfCategory(c)
    /\ Len(selResult.selected) <= 10
    /\ \A i \in 1..(Len(selResult.selected) - 1) :
         ~Before(selResult.selected[i + 1].score, selResult.selected[i + 1].ticker,
                 selResult.selected[i].score, selResult.selected[i].ticker)
    /\ (\E c \in Range(selCategories) :
          \/ Cardinality(CandidateTickers(c)) > 5
          \/ TopOfCategory(c) \ Range(selResult.tickers) # {}
              /\ Cardinality(UNION {TopOfCategory(d) : d \in Range(selCategories)}) > 10)
         => selResult.capped

(***************************************************************************)
(* marketsCache over calls of fetchKalshiMarketsForSeries,                 *)
(* src/server/lib/kalshiClient.js lines 203-261.  A call looks the cache   *)
(* up when it begins; a call that fetches ends later, other calls and the  *)
(* clock in between.                                                       *)
(***************************************************************************)
SeriesArgs(seriesTicker, status) ==
  [seriesTicker |-> seriesTicker, status |-> status, closeMin |-> NullString,
   closeMax |-> NullString]

\* the arguments of the calls: part_009 line 291 passes the status "open"
CacheCallArgs == {SeriesArgs("KXHURR", "open"), SeriesArgs("KXCPI", "open"), SeriesArgs("", "open")}

\* what the venue answers to the requests of one call, page by page
CacheVenueAnswers ==
  {<<Page(200, <<HurricaneMarket>>, NullString, NoHeader)>>,
   <<Page(200, <<RainMarket, UnnamedMarket>>, "c1", NoHeader),
     Page(200, <<HurricaneMarket, HurricaneMarket>>, "c2", NoHeader),
     Page(200, <<RainMarket, RainMarket>>, "c3", NoHeader)>>,
   <<Page(200, <<RainMarket, HurricaneMarket>>, "c1", NoHeader),
     Page(429, <<>>, NullString, SecondsHeader(7))>>,
   <<Page(500, <<>>, NullString, NoHeader)>>,
   <<Page(200, <<HurricaneMarket, RainMarket>>, "c1", NoHeader),
     Page(0, <<>>, NullString, NoHeader)>>}

\* the calls that are followed, the calls that fetch at one time, the step of
\* the clock and the steps that are followed
MaxCacheCalls == 3
MaxCallsInFlight == 2
CacheClockStep == 30000
MaxCacheClockSteps == 3

NoEntry == [present |-> FALSE, markets |-> <<>>, fetchedAtMs |-> 0]

\* the entry of the key of the arguments, as the call finds it
EntryFound(args) ==
  LET cacheKey == buildMarketsCacheKey(args.seriesTicker, args.status, args.closeMin,
                                       args.closeMax)
  IN  IF cacheKey \in DOMAIN marketsCache
        THEN [present |-> TRUE, markets |-> marketsCache[cacheKey].markets,
              fetchedAtMs |-> marketsCache[cacheKey].fetchedAtMs]
        ELSE NoEntry

InitCache ==
  /\ QuoteIdle
  /\ RankIdle
  /\ KalshiIdle
  /\ SyncIdle
  /\ LlmIdle
  /\ AbortIdle
  /\ RateIdle
  /\ FanIdle
  /\ SelectIdle
  /\ RunIdle
  /\ PagingIdle
  /\ cClock = 0
  /\ marketsCache = <<>>
  /\ cCalls = <<>>

\* lines 209-217: a call begins; it returns at once without a ticker or with a
\* fresh entry of the cache, and goes on to fetch otherwise
CallBegins ==
  /\ Len(cCalls) < MaxCacheCalls
  /\ Cardinality({i \in 1..Len(cCalls) : cCalls[i].pending}) < MaxCallsInFlight
  /\ \E args \in CacheCallArgs :
       LET lookup == marketsCacheLookup(args, marketsCache, cClock)
       IN  cCalls' = Append(cCalls,
                            [args |-> args, beganAt |-> cClock, found |-> EntryFound(args),
                             pending |-> lookup.pending, result |-> lookup.result,
                             endedAt |-> cClock])
  /\ UNCHANGED <<outsideCache, cClock, marketsCache>>

\* lines 219-261: the pages of a call have been fetched; the call returns the
\* rate limit, throws, or writes the cache and returns the markets
CallEnds ==
  \E i \in 1..Len(cCalls), venuePages \in CacheVenueAnswers :
    /\ cCalls[i].pending
    /\ LET result == fetchPages(venuePages, 0, <<>>)
           args == cCalls[i].args
       IN  /\ cCalls' = [cCalls EXCEPT ![i].pending = FALSE, ![i].result = result,
                                       ![i].endedAt = cClock]
           /\ marketsCache' =
                IF result.threw \/ result.rateLimited THEN marketsCache
                ELSE marketsCacheSet(marketsCache,
                                     buildMarketsCacheKey(args.seriesTicker, args.status,
                                                          args.closeMin, args.closeMax),
                                     result.markets, cClock)
    /\ UNCHANGED <<outsideCache, cClock>>

CacheClockAdvances ==
  /\ cClock < MaxCacheClockSteps * CacheClockStep
  /\ cClock' = cClock + CacheClockStep
  /\ UNCHANGED <<outsideCache, marketsCache, cCalls>>

NextCache == CallBegins \/ CallEnds \/ CacheClockAdvances

SpecCache == InitCache /\ [][NextCache]_vars

\* a call returns the cached list, without a request, exactly when it found an
\* entry of its key younger than MARKETS_TTL_MS
HitExactlyWhenFresh ==
  \A i \in 1..Len(cCalls) :
    LET call == cCalls[i]
        fresh == /\ call.args.seriesTicker # ""
                 /\ call.found.present
                 /\ call.beganAt - call.found.fetchedAtMs < MARKETS_TTL_MS
    IN  /\ fresh <=> (~call.pending /\ call.result.cacheHit)
        /\ fresh => (call.result.markets = call.found.markets /\ call.result.requests = 0)
        /\ (~fresh /\ ~call.pending /\ call.args.seriesTicker # "") =>
             call.result.requests >= 1

\* the call ends in this step
EndsNow(i) == i \in 1..Len(cCalls) /\ cCalls[i].pending /\ ~cCalls'[i].pending

\* the cache changes only when a fetch ends that fetched its pages: the entry of
\* its key is set to its markets and the time; a call that ends rate limited or
\* throws leaves the cache as it is; no entry is ever removed
WrittenOnlyByCompletedFetch ==
  /\ DOMAIN marketsCache \subseteq DOMAIN marketsCache'
  /\ marketsCache' # marketsCache =>
       \E i \in 1..Len(cCalls) :
         /\ EndsNow(i)
         /\ ~cCalls'[i].result.threw /\ ~cCalls'[i].result.rateLimited
         /\ \E key \in DOMAIN marketsCache' :
              /\ marketsCache'[key] = [markets |-> cCalls'[i].result.markets,
                                       fetchedAtMs |-> cClock]
              /\ \A other \in DOMAIN marketsCache : other # key =>
                   marketsCache'[other] = marketsCache[other]
  /\ \A i \in 1..Len(cCalls) :
       (EndsNow(i) /\ (cCalls'[i].result.threw \/ cCalls'[i].result.rateLimited)) =>
         marketsCache' = marketsCache

\* C26: over any sequence of calls of fetchKalshiMarketsForSeries and advances of
\* the clock, a call returns the cached list without a request exactly when an
\* entry of its key exists and is younger than MARKETS_TTL_MS; an entry is
\* written only by a fetch that fetched all its pages, so a rate-limited or
\* failed fetch leaves the cache unchanged; and entries are never removed, only
\* replaced by a later fetch.
C26_CacheHitsAndWrites == []HitExactlyWhenFresh /\ [][WrittenOnlyByCompletedFetch]_vars

\* the first call fetched and wrote the entry, the second found it fresh, and the
\* third found it as old as MARKETS_TTL_MS, fetched, and was rate limited: the
\* entry is still that of the first call
C26_Witness ==
  /\ Len(cCalls) = 3
  /\ \A i \in 1..3 : cCalls[i].args.seriesTicker = "KXHURR" /\ ~cCalls[i].pending
  /\ ~cCalls[1].result.cacheHit /\ ~cCalls[1].result.threw /\ ~cCalls[1].result.rateLimited
  /\ cCalls[2].result.cacheHit
  /\ cCalls[3].beganAt - cCalls[1].endedAt = MARKETS_TTL_MS
  /\ cCalls[3].result.rateLimited
  /\ marketsCache["KXHURR|open||"] =
       [markets |-> cCalls[1].result.markets, fetchedAtMs |-> cCalls[1].endedAt]

(***************************************************************************)
(* runSync, src/unnamed/part_007 lines 282-303, with syncKalshiMarkets and *)
(* syncCategory of src/backend/sync.js lines 199-317.  runSync is invoked  *)
(* by POST /api/sync, at startup and by the interval timer.                *)
(***************************************************************************)
KALSHI_CATEGORIES == {"Climate and Weather", "Economics", "Financials"}

\* the invocations of runSync and the pages of one category that are followed
MaxRuns == 2
MaxSyncPages == 2

\* a run that found the flag set
SkippedRun ==
  [sawSyncing |-> TRUE, pc |-> "returnedNull",
   category |-> [c \in KALSHI_CATEGORIES |-> "notCalled"],
   pages |-> [c \in KALSHI_CATEGORIES |-> 0], dictionaryThrew |-> FALSE]

\* a run that set the flag, after the synchronous part of syncKalshiMarkets:
\* db.prepare threw, or every syncCategory waits for its first page
StartedRun(prepareThrew) ==
  [sawSyncing |-> FALSE, pc |-> IF prepareThrew THEN "rejected" ELSE "awaiting",
   category |-> [c \in KALSHI_CATEGORIES |-> IF prepareThrew THEN "notCalled" ELSE "fetching"],
   pages |-> [c \in KALSHI_CATEGORIES |-> 0], dictionaryThrew |-> FALSE]

\* a fetch of the run is in flight
Fetching(run) == \E c \in KALSHI_CATEGORIES : run.category[c] = "fetching"

\* Promise.all of the run: rejected with the first category that fails,
\* fulfilled when every category has returned
AllRejected(run) == \E c \in KALSHI_CATEGORIES : run.category[c] = "failed"
AllFulfilled(run) == \A c \in KALSHI_CATEGORIES : run.category[c] = "returned"

InitRun ==
  /\ QuoteIdle
  /\ RankIdle
  /\ KalshiIdle
  /\ SyncIdle
  /\ LlmIdle
  /\ AbortIdle
  /\ RateIdle
  /\ FanIdle
  /\ SelectIdle
  /\ CacheIdle
  /\ PagingIdle
  /\ isSyncing = FALSE
  /\ runs = <<>>
  /\ wroteBesideAnotherRun = FALSE

\* part_007 lines 283-287 and sync.js lines 288-305: runSync is invoked; with
\* the flag set it returns null; otherwise it sets the flag and calls
\* syncKalshiMarkets, which prepares the statement (outside its try) and calls
\* syncCategory for every category
InvokeRunSync ==
  /\ Len(runs) < MaxRuns
  /\ IF isSyncing
       THEN /\ runs' = Append(runs, SkippedRun)
            /\ UNCHANGED isSyncing
       ELSE /\ \E prepareThrew \in BOOLEAN : runs' = Append(runs, StartedRun(prepareThrew))
            /\ isSyncing' = TRUE
  /\ UNCHANGED <<outsideRun, wroteBesideAnotherRun>>

\* what a fetch of a page comes to: a full page with a cursor (rows or none
\* kept), a last page, or fetchJson or insertMany throwing
PageOutcomes == {"pageWithRows", "pageWithoutRows", "lastPageWithRows", "lastPageWithoutRows",
                 "fetchThrew", "insertThrew"}

\* another run holds the flag and awaits its categories
AnotherRunAwaits(r) == \E other \in 1..Len(runs) : other # r /\ runs[other].pc = "awaiting"

\* sync.js lines 207-283: a page of a category settles; its rows are inserted,
\* and syncCategory goes on to the next page, returns or throws
CategoryPageSettles(r, c) ==
  /\ r \in 1..Len(runs)
  /\ runs[r].category[c] = "fetching"
  /\ \E outcome \in PageOutcomes :
       /\ outcome \in {"pageWithRows", "pageWithoutRows"} => runs[r].pages[c] + 1 < MaxSyncPages
       /\ runs' = [runs EXCEPT
                     ![r].category[c] =
                        CASE outcome \in {"fetchThrew", "insertThrew"} -> "failed"
                          [] outcome \in {"lastPageWithRows", "lastPageWithoutRows"} -> "returned"
                          [] OTHER -> "fetching",
                     ![r].pages[c] = IF outcome \in {"fetchThrew", "insertThrew"} THEN @ ELSE @ + 1]
       /\ wroteBesideAnotherRun' =
            (wroteBesideAnotherRun
               \/ (outcome \in {"pageWithRows", "lastPageWithRows", "insertThrew"}
                     /\ AnotherRunAwaits(r)))
  /\ UNCHANGED <<outsideRun, isSyncing>>

\* sync.js lines 302-316 and part_007 lines 288-302: Promise.all has settled;
\* syncKalshiMarkets returns its counts, runSync rebuilds the dictionary
\* inside a try and resets the flag
RunSyncContinues(r) ==
  /\ r \in 1..Len(runs)
  /\ runs[r].pc = "awaiting"
  /\ AllRejected(runs[r]) \/ AllFulfilled(runs[r])
  /\ \E dictionaryThrew \in BOOLEAN :
       runs' = [runs EXCEPT ![r].pc = "returned", ![r].dictionaryThrew = dictionaryThrew]
  /\ isSyncing' = FALSE
  /\ UNCHANGED <<outsideRun, wroteBesideAnotherRun>>

AnyCategoryPageSettles == \E r \in 1..MaxRuns, c \in KALSHI_CATEGORIES : CategoryPageSettles(r, c)
AnyRunSyncContinues == \E r \in 1..MaxRuns : RunSyncContinues(r)

NextRun == InvokeRunSync \/ AnyCategoryPageSettles \/ AnyRunSyncContinues

SpecRun == InitRun /\ [][NextRun]_vars

\* every fetch settles (fetchWithTimeout aborts it after 15 s) and every
\* continuation that is ready runs
SpecRunFair ==
  /\ SpecRun
  /\ \A r \in 1..MaxRuns : \A c \in KALSHI_CATEGORIES : WF_vars(CategoryPageSettles(r, c))
  /\ \A r \in 1..MaxRuns : WF_vars(RunSyncContinues(r))

\* the run has set the flag
SetTheFlag(r) == r \in 1..Len(runs) /\ ~runs[r].sawSyncing
\* the run has reset the flag
ResetTheFlag(r) == r \in 1..Len(runs) /\ runs[r].pc = "returned"

\* C27: every run of runSync that sets isSyncing to true eventually sets it
\* back to false, whether the sync succeeds or a step of it fails (database,
\* venue, dictionary rebuild), so that later syncs are not skipped for ever.
C27_FlagEventuallyReset == \A r \in 1..MaxRuns : SetTheFlag(r) ~> ResetTheFlag(r)


\* a run that found the flag set returned null and called no syncCategory
SkippedRunsFetchNothing ==
  \A r \in 1..Len(runs) :
    runs[r].sawSyncing =>
      /\ runs[r].pc = "returnedNull"
      /\ \A c \in KALSHI_CATEGORIES : runs[r].category[c] = "notCalled"

\* no two runs have a fetch in flight together
NoTwoRunsFetching ==
  \A r1, r2 \in 1..Len(runs) : r1 # r2 => ~(Fetching(runs[r1]) /\ Fetching(runs[r2]))

\* two runs fetch together only when a category of the earlier one had failed
\* and the earlier one has returned
OverlapOnlyAfterFailure ==
  \A r1, r2 \in 1..Len(runs) :
    (r1 < r2 /\ Fetching(runs[r1]) /\ Fetching(runs[r2])) =>
      (AllRejected(runs[r1]) /\ runs[r1].pc = "returned")

\* C28: syncs are mutually exclusive: a runSync invoked while isSyncing is true
\* returns null without fetching, and at no time are fetches or database writes
\* of two different runs active together, also when one category of a run
\* fails while the other categories of that run are still in flight.
C28_SyncsMutuallyExclusive ==
  /\ SkippedRunsFetchNothing
  /\ NoTwoRunsFetching
  /\ ~wroteBesideAnotherRun


(***************************************************************************)
(* The paginated fetches: fetchKalshiSeriesList, fetchKalshiSeriesByTags   *)
(* and fetchKalshiMarketsForSeries of src/server/lib/kalshiClient.js, and  *)
(* syncCategory of src/backend/sync.js, page by page, with the constants   *)
(* of the source.  A page is followed by its length and its cursor.        *)
(***************************************************************************)
PAGE_LIMIT == 100
MAX_PAGES == 50
EVENTS_PAGE_LIMIT == 200
\* sync.js line 282: if (pages > 200) break
SyncPagesBreak == 200

KalshiClientFetchers == {"fetchKalshiSeriesList", "fetchKalshiSeriesByTags", "fetchKalshiMarketsForSeries"}
PaginatedFetchers == KalshiClientFetchers \cup {"syncCategory"}

\* the pages that are followed at most
MaxFollowedPages == 210

\* what a page of the venue carries: none, fewer than the limit, the limit, more
PageLengths(limit) == {0, limit - 1, limit, limit + 1}
\* the cursor of a page: absent or not a string, the empty string, a cursor
PageCursors == {NullString, "", "next"}

\* kalshiClient.js lines 46-52, sync.js lines 154-159
extractCursor(cursor) == IF cursor # NullString /\ cursor # "" THEN cursor ELSE NullString

\* kalshiClient.js lines 78-79, 139-140, 256-257, after pages += 1
clientLoopContinuesMutNoMaxPages(pages, length, cursor) ==
  /\ ~(length < PAGE_LIMIT)
  /\ cursor # NullString

clientLoopContinues(pages, length, cursor) ==
  /\ ~(length < PAGE_LIMIT)
  /\ cursor # NullString /\ pages < MAX_PAGES

\* sync.js lines 281-283, after pages += 1
syncLoopContinues(pages, length, cursor) ==
  /\ ~(cursor = NullString \/ length < EVENTS_PAGE_LIMIT)
  /\ ~(pages > SyncPagesBreak)
  /\ cursor # NullString

InitPaging ==
  /\ QuoteIdle
  /\ RankIdle
  /\ KalshiIdle
  /\ SyncIdle
  /\ LlmIdle
  /\ AbortIdle
  /\ RateIdle
  /\ FanIdle
  /\ SelectIdle
  /\ CacheIdle
  /\ RunIdle
  /\ pFetcher \in PaginatedFetchers
  /\ pPages = 0
  /\ pLast = [length |-> 0, cursor |-> ""]
  /\ ppc = "fetching"

\* one pass of a loop of kalshiClient.js whose request is answered with a page
ClientPageArrives ==
  /\ ppc = "fetching"
  /\ pFetcher \in KalshiClientFetchers
  /\ pPages < MaxFollowedPages
  /\ \E length \in PageLengths(PAGE_LIMIT), cursor \in PageCursors :
       /\ pPages' = pPages + 1
       /\ pLast' = [length |-> length, cursor |-> cursor]
       /\ ppc' = IF clientLoopContinues(pPages + 1, length, extractCursor(cursor))
                   THEN "fetching" ELSE "returned"
  /\ UNCHANGED <<outsidePaging, pFetcher>>

\* one pass of the loop of syncCategory whose request is answered with a page
SyncPageArrives ==
  /\ ppc = "fetching"
  /\ pFetcher = "syncCategory"
  /\ pPages < MaxFollowedPages
  /\ \E length \in PageLengths(EVENTS_PAGE_LIMIT), cursor \in PageCursors :
       /\ pPages' = pPages + 1
       /\ pLast' = [length |-> length, cursor |-> cursor]
       /\ ppc' = IF syncLoopContinues(pPages + 1, length, extractCursor(cursor))
                   THEN "fetching" ELSE "returned"
  /\ UNCHANGED <<outsidePaging, pFetcher>>

\* the request fails or is answered with an error: the fetch throws, or, for the
\* markets of a series answered 429, returns the rate limit
PageRequestFails ==
  /\ ppc = "fetching"
  /\ \E rateLimited \in BOOLEAN :
       /\ rateLimited => pFetcher = "fetchKalshiMarketsForSeries"
       /\ ppc' = IF rateLimited THEN "rateLimited" ELSE "threw"
  /\ UNCHANGED <<outsidePaging, pFetcher, pPages, pLast>>

NextPaging == ClientPageArrives \/ SyncPageArrives \/ PageRequestFails

SpecPaging == InitPaging /\ [][NextPaging]_vars

\* every request is answered or fails in the end
SpecPagingFair == SpecPaging /\ WF_vars(NextPaging)

\* the most pages the fetch may read
PagesCap == IF pFetcher = "syncCategory" THEN 201 ELSE 50
\* the page limit of the fetch
LimitOf == IF pFetcher = "syncCategory" THEN 200 ELSE 100

\* the last page read was short or carried no cursor
LastPageEnds == pLast.length < LimitOf \/ pLast.cursor \in {NullString, ""}

PagesWithinCap ==
  /\ pPages <= PagesCap
  /\ (ppc = "fetching" /\ pPages > 0) => ~LastPageEnds
  /\ (ppc = "returned" /\ pPages < PagesCap) => LastPageEnds

ParsedRankings == parseGeminiJson(lServer.text)

\* /api/rank-markets answered with rankings
RankingsReturned == lEndpoint = "/api/rank-markets" /\ lpc = "answered" /\ lReply.status = 200
\* /api/score-markets answered with the markets it matched and their scores
ScoresReturned ==
  /\ lEndpoint = "/api/score-markets"
  /\ lReply.status = 200
  /\ lReply.body.markets # <<>>

\* the tickers and market tickers of the markets that were matched
MatchedTickers ==
  {lReply.body.markets[i].ticker : i \in 1..Len(lReply.body.markets)}
    \cup {lReply.body.markets[i].market_ticker : i \in 1..Len(lReply.body.markets)}

\* C30: the LLM can never introduce a market that was not sent to it: every item
\* returned by sanitizeRankings has a marketId among the ids of the markets of
\* the request, and every item returned by sanitizeScores has a ticker that is
\* the ticker or the market_ticker of a matched market; items with another id
\* or none are dropped, and no others.
C30_OnlyMarketsThatWereSent ==
  /\ RankingsReturned =>
       /\ \A i \in 1..Len(lReply.body) : lReply.body[i].marketId \in Range(lBody.markets)
       /\ Len(lReply.body) =
            Cardinality({i \in 1..Len(ParsedRankings.items) :
                           rankingId(ParsedRankings.items[i]) \in Range(lBody.markets)})
  /\ ScoresReturned =>
       \A i \in 1..Len(lReply.body.scored_markets) :
         /\ lReply.body.scored_markets[i].ticker # NullString
         /\ lReply.body.scored_markets[i].ticker \in MatchedTickers

\* the LLM ranked a market that was not sent, and the answer leaves it out
C30_Witness ==
  /\ RankingsReturned
  /\ \E i \in 1..Len(ParsedRankings.items) :
       /\ rankingId(ParsedRankings.items[i]) # ""
       /\ rankingId(ParsedRankings.items[i]) \notin Range(lBody.markets)
  /\ Len(lReply.body) > 0
  /\ Len(lReply.body) < Len(ParsedRankings.items)

====
